---- MODULE Spec2Model ----
(***************************************************************************)
(* A model of the wheel_sieve factorisation package: modular inversion     *)
(* (inv, inv_multi, the Montgomery check gate), the ECM engines and the    *)
(* factorize driver.                                                       *)
(*                                                                         *)
(* Python integers are unbounded; every bound below keeps the values of    *)
(* the model inside the range in which the model's arithmetic is exact.    *)
(* Python's % and // on a positive modulus are TLA+'s % and \div.          *)
(***************************************************************************)
EXTENDS Integers, Sequences, FiniteSets, TLC

VARIABLES
    h_pc,       \* pure-function harness: "call" before, "done" after the call
    h_args,     \* the arguments of the call
    h_ret,      \* what the call returned or raised
    d_pc,       \* factorize: "entry", "loop", "returned", "raised"
    d_n,        \* factorize: the argument n
    prime_factors,      \* factorize: dict prime -> multiplicity
    working_dict,       \* factorize: the worklist, a dict in insertion order
    remaining_factors,  \* factorize: dict of unresolved composites
    d_calls,    \* factorize: the routines the call has invoked so far
    d_iter,     \* factorize: iterations of the worklist loop so far
    e_pc,       \* ecm: where the call stands
    e_call,     \* ecm: the engine and its arguments n, rounds, b1, b2
    e_round,    \* ecm: round_i, the rounds completed so far
    e_count,    \* ecm: count, the sampling attempts made in this round
    e_draw,     \* ecm: the values random.randint returned in the last attempt
    e_pt,       \* ecm: the point of the sampled curve
    e_curve,    \* ecm: the sampled curve
    e_exc,      \* ecm: the exception caught or raised last
    e_ret,      \* ecm: how the call ended
    w_primes,   \* PRIME_GEN: Worker.primes, the cached list of primes
    w_lim,      \* PRIME_GEN: Worker.lim, the cache holds the primes below it
    w_ubound,   \* PRIME_GEN: Worker.ubound, None until the first set_n
    s_mem,      \* wheel_sieve_byte: MEM, the memory of one partition
    s_op,       \* wheel_sieve_byte: the call made last, with what it yielded
    s_ops       \* wheel_sieve_byte: the calls made so far

hvars == <<h_pc, h_args, h_ret>>
dvars == <<d_pc, d_n, prime_factors, working_dict, remaining_factors, d_calls, d_iter>>
evars == <<e_pc, e_call, e_round, e_count, e_draw, e_pt, e_curve, e_exc, e_ret>>
svars == <<w_primes, w_lim, w_ubound, s_mem, s_op, s_ops>>
vars == <<h_pc, h_args, h_ret, d_pc, d_n, prime_factors, working_dict,
          remaining_factors, d_calls, d_iter,
          e_pc, e_call, e_round, e_count, e_draw, e_pt, e_curve, e_exc, e_ret,
          w_primes, w_lim, w_ubound, s_mem, s_op, s_ops>>

(***************************************************************************)
(* Bounds of the model.                                                    *)
(***************************************************************************)
MaxMod == 12        \* moduli n of the inversion calls are 2..MaxMod
MaxLen == 4         \* inv_multi lists have 1..MaxLen elements
MaxNeg == 2             \* factorize is called with N from -MaxNeg
MaxSmallN == 70
MaxBigFactors == 3  \* and on products of up to MaxBigFactors primes >= 1033
MaxN == 2000000000  \* no argument of factorize exceeds MaxN

(***************************************************************************)
(* Outcomes of a call: a returned value, or a raised exception.            *)
(***************************************************************************)
Returned(v) == [kind |-> "return", val |-> v, x |-> 0, n |-> 0]
InverseNotFound(x, n) == [kind |-> "InverseNotFound", val |-> 0, x |-> x, n |-> n]
AssertionError == [kind |-> "AssertionError", val |-> 0, x |-> 0, n |-> 0]
NoOutcome == [kind |-> "none", val |-> 0, x |-> 0, n |-> 0]

RECURSIVE Pow2(_)
Pow2(e) ==
    IF e = 0 THEN 1
    ELSE IF e = 1 THEN 2
    ELSE Pow2(e \div 2) * Pow2(e - e \div 2)

(* int.bit_length() of 0 <= x < 2^31 *)
bit_length(x) ==
    IF x = 0 THEN 0
    ELSE CHOOSE b \in 1..31 : Pow2(b - 1) <= x /\ (b = 31 \/ x < Pow2(b))

(***************************************************************************)
(* A loop whose body is step, run for count passes from the state st.  The *)
(* passes are run as two halves, one after the other.                      *)
(***************************************************************************)
RECURSIVE Iterate(_, _, _)
Iterate(step(_), st, count) ==
    IF count = 0 THEN st
    ELSE IF count = 1 THEN step(st)
    ELSE LET first == Iterate(step, st, count \div 2) IN
         IF first = first THEN Iterate(step, first, count - count \div 2) ELSE first

(***************************************************************************)
(* Exact arithmetic on values up to MaxInt.  Python's integers do not      *)
(* overflow: a product that would leave the model's integer range is       *)
(* computed by doubling, and a product used only for a comparison          *)
(* saturates at MaxInt.                                                    *)
(***************************************************************************)
MaxInt == 2147483647

AddMod(a, b, n) == IF a >= n - b THEN a - (n - b) ELSE a + b

(* (x * 2^k) % n for 0 <= x < n *)
Shl(x, k, n) == Iterate(LAMBDA v : AddMod(v, v, n), x, k)

(* (a * b) % n for 0 <= a < n and 0 <= b < 2^bits, by halves of b's bits *)
RECURSIVE MulModSplit(_, _, _, _)
MulModSplit(a, b, bits, n) ==
    IF a = 0 \/ b <= MaxInt \div a THEN (a * b) % n
    ELSE LET lo_bits == bits \div 2
             hi == MulModSplit(a, b \div Pow2(lo_bits), bits - lo_bits, n)
             lo == MulModSplit(a, b % Pow2(lo_bits), lo_bits, n)
         IN  IF hi = hi THEN AddMod(Shl(hi, lo_bits, n), lo, n) ELSE hi

(* (a * b) % n for 0 <= a, b < n, exact where a * b exceeds MaxInt *)
MulMod(a, b, n) == MulModSplit(a, b, bit_length(b), n)

MulSat(a, b) == IF a = 0 \/ b <= MaxInt \div a THEN a * b ELSE MaxInt

RECURSIVE PowSat(_, _)
PowSat(b, e) ==
    IF e = 0 THEN 1
    ELSE IF e = 1 THEN b
    ELSE MulSat(PowSat(b, e \div 2), PowSat(b, e - e \div 2))

(***************************************************************************)
(* math.gcd                                                                *)
(***************************************************************************)
Abs(a) == IF a < 0 THEN -a ELSE a

RECURSIVE GcdLoop(_, _)
GcdLoop(a, b) == IF a > 0 THEN GcdLoop(b % a, a) ELSE b

gcd(a, b) == GcdLoop(Abs(a), Abs(b))

(***************************************************************************)
(* The extended Euclidean loop of inv, src/ecm_common.py:38-44:            *)
(*     while a > 0: (q, a), b = divmod(b, a), a ; ta, tb = tb - q*ta, ta   *)
(***************************************************************************)
RECURSIVE EuclidLoop(_, _, _, _)
EuclidLoop(a, b, ta, tb) ==
    IF a > 0
    THEN EuclidLoop(b % a, a, tb - (b \div a) * ta, ta)
    ELSE [b |-> b, tb |-> tb]

(* The value inv returns: src/ecm_common.py:48 *)
inv_result_mutant(tb, n) == tb

inv_result(tb, n) == tb % n

(* inv of src/ecm_common.py (with the Bezout assertion after the loop) *)
inv_ecm_common(x, n) ==
    LET r == EuclidLoop(x % n, n, 1, 0) IN
    IF (MulMod(r.tb % n, x % n, n) - r.b) % n # 0 THEN AssertionError
    ELSE IF r.b # 1 THEN InverseNotFound(x % n, n)
    ELSE Returned(inv_result(r.tb, n))

(***************************************************************************)
(* inv of src/ecm.py: both Bezout rows are kept and asserted after every   *)
(* iteration of the loop.                                                  *)
(***************************************************************************)
RECURSIVE EuclidLoop2(_, _, _, _, _, _, _, _)
EuclidLoop2(x, n, a, b, sa, sb, ta, tb) ==
    IF a > 0
    THEN LET q == b \div a
             a1 == b % a
             b1 == a
             sa1 == sb - q * sa
             sb1 == sa
             ta1 == tb - q * ta
             tb1 == ta
         IN  IF sa1 * n + ta1 * (x % n) = a1 /\ sb1 * n + tb1 * (x % n) = b1
             THEN EuclidLoop2(x, n, a1, b1, sa1, sb1, ta1, tb1)
             ELSE [ok |-> FALSE, b |-> b1, tb |-> tb1]
    ELSE [ok |-> TRUE, b |-> b, tb |-> tb]

inv_ecm(x, n) ==
    LET r == EuclidLoop2(x, n, x % n, n, 0, 1, 1, 0) IN
    IF ~r.ok THEN AssertionError
    ELSE IF r.b # 1 THEN InverseNotFound(x % n, n)
    ELSE Returned(((r.tb % n) + n) % n)

(***************************************************************************)
(* inv of src/wheel_sieve/common.py: gmpy2's invert(x, n) returns the      *)
(* inverse in [0, n) and raises ZeroDivisionError when there is none; it   *)
(* is computed here by the same extended Euclidean loop.                   *)
(***************************************************************************)
inv(x, n) ==
    LET r == EuclidLoop(x % n, n, 1, 0) IN
    IF r.b # 1 THEN InverseNotFound(x % n, n)
    ELSE Returned(r.tb % n)

(***************************************************************************)
(* check of src/ecm_montgomery.py: the gate that raises on gcd(z, n) > 1.  *)
(* A point is <<x, z>>, a curve <<A, s, n>>.                               *)
(***************************************************************************)
check_mutant(pt, curve) ==
    IF gcd(pt[2], curve[3]) > 0
    THEN InverseNotFound(pt[2], curve[3])
    ELSE Returned(pt)

check(pt, curve) ==
    IF gcd(pt[2], curve[3]) > 1
    THEN InverseNotFound(pt[2], curve[3])
    ELSE Returned(pt)

(***************************************************************************)
(* Python containers.  A list is a sequence; Python's index i is the       *)
(* sequence's index i + 1.  A dict is the sequence of its <<key, value>>   *)
(* items in insertion order, with pairwise distinct keys.                  *)
(***************************************************************************)
At(ls, i) == ls[i + 1]

Range(ls) == {ls[i] : i \in DOMAIN ls}

DictKeys(d) == {d[i][1] : i \in DOMAIN d}

DictHas(d, k) == \E i \in DOMAIN d : d[i][1] = k

DictGet(d, k) == d[CHOOSE i \in DOMAIN d : d[i][1] = k][2]

(* d[k] = v: an existing key keeps its place, a new key goes last. *)
DictSet(d, k, v) ==
    IF DictHas(d, k)
    THEN [i \in DOMAIN d |-> IF d[i][1] = k THEN <<k, v>> ELSE d[i]]
    ELSE Append(d, <<k, v>>)

(***************************************************************************)
(* inv_multi of src/wheel_sieve/common.py (Montgomery's trick).            *)
(* element_tree is a flat complete binary tree of 2k - 1 nodes.            *)
(***************************************************************************)
NoneInt == -1       \* a None slot of element_tree; overwritten before read

(* lines 97-99: the tree with the elements on its first d leaves, 1 on the rest *)
tree_init(element_list, k) ==
    LET d == Len(element_list) IN
    [j \in 1..(2 * k - 1) |->
        LET i == j - 1 IN
        IF i < k - 1 THEN NoneInt
        ELSE IF i < k + d - 1 THEN At(element_list, i - (k - 1))
        ELSE 1]

(* lines 101-102: one level of products; the nodes of a level are independent *)
up_level_mutant(t, k, n) ==
    [j \in DOMAIN t |->
        LET i == j - 1 IN
        IF i >= k \div 2 - 1 /\ i < k - 1
        THEN (At(t, 2 * i + 1) * At(t, 2 * i + 1)) % n
        ELSE t[j]]

up_level(t, k, n) ==
    [j \in DOMAIN t |->
        LET i == j - 1 IN
        IF i >= k \div 2 - 1 /\ i < k - 1
        THEN (At(t, 2 * i + 1) * At(t, 2 * i + 2)) % n
        ELSE t[j]]

(* lines 100-103 *)
RECURSIVE up_pass(_, _, _)
up_pass(t, k, n) ==
    IF k > 1 THEN up_pass(up_level(t, k, n), k \div 2, n) ELSE t

(* lines 107-111: the children of node i take the inverses; i is 0-based *)
down_level_mutant(t, k, n) ==
    [j \in DOMAIN t |->
        LET c == j - 1
            i == (c - 1) \div 2
        IN  IF c >= 1 /\ i >= k \div 2 - 1 /\ i < k - 1
            THEN IF c = 2 * i + 1
                 THEN (At(t, i) * At(t, 2 * i + 1)) % n
                 ELSE (At(t, i) * At(t, 2 * i + 2)) % n
            ELSE t[j]]

down_level(t, k, n) ==
    [j \in DOMAIN t |->
        LET c == j - 1
            i == (c - 1) \div 2
        IN  IF c >= 1 /\ i >= k \div 2 - 1 /\ i < k - 1
            THEN IF c = 2 * i + 1
                 THEN (At(t, i) * At(t, 2 * i + 2)) % n
                 ELSE (At(t, i) * At(t, 2 * i + 1)) % n
            ELSE t[j]]

(* lines 105-112: returns the tree and the final k *)
RECURSIVE down_pass(_, _, _, _)
down_pass(t, k, d, n) ==
    IF k < d THEN down_pass(down_level(t, k, n), k * 2, d, n)
    ELSE [tree |-> t, k |-> k]

(* lines 113-119: the leaves, in order, into the dict *)
RECURSIVE leaf_pass(_, _, _, _, _)
leaf_pass(t, i, last, n, inv_dict) ==
    IF i > last THEN inv_dict
    ELSE LET element == At(t, i)
             inv_element == IF i % 2 = 0
                            THEN (At(t, (i - 1) \div 2) * At(t, i - 1)) % n
                            ELSE (At(t, (i - 1) \div 2) * At(t, i + 1)) % n
         IN  leaf_pass(t, i + 1, last, n, DictSet(inv_dict, element, inv_element))

inv_multi(element_list, n) ==
    LET d == Len(element_list) IN
    IF d = 1
    THEN LET r == inv(At(element_list, 0), n) IN
         IF r.kind = "return"
         THEN Returned(<< <<At(element_list, 0), r.val>> >>)
         ELSE r
    ELSE LET k0 == Pow2(bit_length(d - 1))
             up == up_pass(tree_init(element_list, k0), k0, n)
             r == inv(At(up, 0), n)
         IN  IF r.kind # "return" THEN r
             ELSE LET dn == down_pass([up EXCEPT ![1] = r.val], 2, d, n)
                  IN  Returned(leaf_pass(dn.tree, dn.k - 1, dn.k + d - 2, n, <<>>))

(***************************************************************************)
(* PRIME_GEN(ubound) of src/wheel_sieve/wheel_sieve_byte.py, iterated to   *)
(* its end: the primes below ubound in ascending order.                    *)
(***************************************************************************)
IsPrime(p) == p >= 2 /\ \A q \in 2..(p - 1) : q * q > p \/ p % q # 0

RECURSIVE PrimesFrom(_, _)
PrimesFrom(lo, ubound) ==
    IF lo >= ubound THEN <<>>
    ELSE IF lo + 1 = ubound THEN (IF IsPrime(lo) THEN <<lo>> ELSE <<>>)
    ELSE LET mid == (lo + ubound) \div 2 IN
         PrimesFrom(lo, mid) \o PrimesFrom(mid, ubound)

PRIME_GEN(ubound) == PrimesFrom(2, ubound)

(***************************************************************************)
(* miller_rabin of src/wheel_sieve/miller_rabin.py                         *)
(***************************************************************************)
(* lines 19-23: one pass of the while loop; st holds y, x1, r *)
powmod_step(st, n) ==
    [y  |-> IF st.r % 2 = 1 THEN MulMod(st.y, st.x1, n) ELSE st.y,
     r  |-> st.r \div 2,
     x1 |-> MulMod(st.x1, st.x1, n)]

(* r is halved while r >= 1: bit_length(r) passes *)
powmod(x, r, n) ==
    Iterate(LAMBDA st : powmod_step(st, n), [y |-> 1, x1 |-> x % n, r |-> r],
            bit_length(r)).y

(* n - 1 = 2^r * d with d odd: lines 80-84 *)
RECURSIVE split_two(_, _)
split_two(d, r) ==
    IF d % 2 = 0 THEN split_two(d \div 2, r + 1) ELSE [d |-> d, r |-> r]

(* lines 90-96: done stays True when none of the r squarings reaches n - 1 *)
squarings_done(x, r, n) ==
    \A j \in 1..r : Iterate(LAMBDA v : MulMod(v, v, n), x, j) # n - 1

(* lines 85-97: False at the first witness that proves n composite *)
miller_rabin_mutant(n, witness_list) ==
    IF n = 2 \/ n = 3 THEN TRUE
    ELSE IF n < 5 \/ n % 2 = 0 THEN FALSE
    ELSE LET s == split_two(n - 1, 0) IN
         \A i \in DOMAIN witness_list :
            LET a == witness_list[i]
                x == powmod(a, s.d, n)
            IN  ~(/\ x # 1 /\ x # n - 1
                  /\ squarings_done(x, s.r, n))

miller_rabin(n, witness_list) ==
    IF n = 2 \/ n = 3 THEN TRUE
    ELSE IF n < 5 \/ n % 2 = 0 THEN FALSE
    ELSE LET s == split_two(n - 1, 0) IN
         \A i \in DOMAIN witness_list :
            LET a == witness_list[i]
                x == powmod(a, s.d, n)
            IN  ~(/\ 2 <= a /\ a <= n - 2
                  /\ x # 1 /\ x # n - 1
                  /\ squarings_done(x, s.r, n))

(* witness_prime(100): the default witness list of factorize *)
WitnessBound == 100

witness_prime(ubound) == PRIME_GEN(ubound)

DefaultWitness == witness_prime(WitnessBound)

(***************************************************************************)
(* inv_power of src/wheel_sieve/common.py: gmpy2's iroot(x, d) returns the *)
(* floor of the d-th root and whether it is exact.  NoneInt stands for     *)
(* None.                                                                   *)
(***************************************************************************)
(* b^e <= x, for b, x >= 0 *)
RECURSIVE PowLeq(_, _, _)
PowLeq(b, e, x) ==
    IF e = 0 THEN 1 <= x
    ELSE b = 0 \/ PowLeq(b, e - 1, x \div b)

RECURSIVE iroot_search(_, _, _, _)
iroot_search(x, d, lo, hi) ==
    IF lo >= hi THEN lo
    ELSE LET mid == lo + (hi - lo + 1) \div 2 IN
         IF PowLeq(mid, d, x)
         THEN iroot_search(x, d, mid, hi)
         ELSE iroot_search(x, d, lo, mid - 1)

iroot(x, d) ==
    LET r == iroot_search(x, d, 0, Pow2((bit_length(x) + d - 1) \div d)) IN
    [root |-> r, is_perfect |-> PowSat(r, d) = x]

inv_power(x, d) ==
    IF x = 0 THEN 0
    ELSE LET r == iroot(x, d) IN
         IF r.is_perfect THEN r.root ELSE NoneInt

(***************************************************************************)
(* The inversion harness: one call of one of the inversion routines on     *)
(* arguments drawn from the bounded ranges.                                *)
(***************************************************************************)
InvFns == {"inv", "inv_ecm_common", "inv_ecm", "check"}

DriverIdle ==
    /\ d_pc = "idle" /\ d_n = 0 /\ prime_factors = <<>> /\ working_dict = <<>>
    /\ remaining_factors = <<>> /\ d_calls = {} /\ d_iter = 0

HarnessIdle == h_pc = "idle" /\ h_args = <<>> /\ h_ret = NoOutcome

(* the sieve module as it is after import: Worker.__init__ has run *)
SieveIdle ==
    /\ w_primes = <<2, 3, 5>> /\ w_lim = 6 /\ w_ubound = NoneInt
    /\ s_mem = 0 /\ s_op = <<>> /\ s_ops = 0

EcmIdle ==
    /\ e_pc = "idle" /\ e_call = <<>> /\ e_round = 0 /\ e_count = 0 /\ e_draw = <<>>
    /\ e_pt = <<>> /\ e_curve = <<>> /\ e_exc = NoOutcome /\ e_ret = NoOutcome

InitInv ==
    /\ DriverIdle
    /\ EcmIdle
    /\ SieveIdle
    /\ h_pc = "call"
    /\ h_ret = NoOutcome
    /\ \E n \in 2..MaxMod : \E x \in (-n)..(2 * n) : \E f \in InvFns :
          h_args = [fn |-> f, x |-> x, n |-> n, xs |-> <<>>]

CallInv ==
    /\ h_pc = "call" /\ h_args.fn = "inv"
    /\ h_ret' = inv(h_args.x, h_args.n)
    /\ h_pc' = "done"
    /\ UNCHANGED <<h_args, dvars, evars, svars>>

CallInvEcmCommon ==
    /\ h_pc = "call" /\ h_args.fn = "inv_ecm_common"
    /\ h_ret' = inv_ecm_common(h_args.x, h_args.n)
    /\ h_pc' = "done"
    /\ UNCHANGED <<h_args, dvars, evars, svars>>

CallInvEcm ==
    /\ h_pc = "call" /\ h_args.fn = "inv_ecm"
    /\ h_ret' = inv_ecm(h_args.x, h_args.n)
    /\ h_pc' = "done"
    /\ UNCHANGED <<h_args, dvars, evars, svars>>

(* check((x0, z), (A, s, n)): only z and n are read. *)
CallCheck ==
    /\ h_pc = "call" /\ h_args.fn = "check"
    /\ LET r == check(<<1, h_args.x>>, <<0, 0, h_args.n>>) IN
         h_ret' = IF r.kind = "return" THEN Returned(r.val[2]) ELSE r
    /\ h_pc' = "done"
    /\ UNCHANGED <<h_args, dvars, evars, svars>>

(* Lists of 1..MaxLen pairwise distinct residues of a modulus n: the callers *)
(* pass list(denom_set), and the tests a range.                             *)
Lists(n) ==
    UNION {{xs \in [1..len -> 0..(n - 1)] :
               \A i, j \in 1..len : xs[i] = xs[j] => i = j} : len \in 1..MaxLen}

InitInvMulti ==
    /\ DriverIdle
    /\ EcmIdle
    /\ SieveIdle
    /\ h_pc = "call"
    /\ h_ret = NoOutcome
    /\ \E n \in 2..MaxMod : \E xs \in Lists(n) :
          h_args = [fn |-> "inv_multi", x |-> 0, n |-> n, xs |-> xs]

CallInvMulti ==
    /\ h_pc = "call" /\ h_args.fn = "inv_multi"
    /\ h_ret' = inv_multi(h_args.xs, h_args.n)
    /\ h_pc' = "done"
    /\ UNCHANGED <<h_args, dvars, evars, svars>>

NextInvMulti == CallInvMulti

SpecInvMulti == InitInvMulti /\ [][NextInvMulti]_vars

NextInv == CallInv \/ CallInvEcmCommon \/ CallInvEcm \/ CallCheck

SpecInv == InitInv /\ [][NextInv]_vars

(***************************************************************************)
(* Claims about inv, check and inv_multi.                                  *)
(***************************************************************************)
InvDone(f) == h_pc = "done" /\ h_args.fn = f

InvVariants == {"inv", "inv_ecm_common", "inv_ecm"}

(* C7: for n >= 2 and any integer x, every variant of inv returns the      *)
(* unique y in [0, n) with x * y = 1 (mod n) when gcd(x, n) = 1 and raises *)
(* InverseNotFound(x mod n, n) when gcd(x, n) > 1; the variants agree and  *)
(* no Bezout assertion fails.                                              *)
C7_InvCorrect ==
    (h_pc = "done" /\ h_args.fn \in InvVariants) =>
        LET x == h_args.x
            n == h_args.n
        IN  /\ h_ret.kind # "AssertionError"
            /\ gcd(x, n) = 1 =>
                 /\ h_ret.kind = "return"
                 /\ h_ret.val \in 0..(n - 1)
                 /\ (x * h_ret.val) % n = 1
                 /\ \A y \in 0..(n - 1) : (x * y) % n = 1 => y = h_ret.val
            /\ gcd(x, n) > 1 => h_ret = InverseNotFound(x % n, n)
            /\ h_ret = inv(x, n)
            /\ h_ret = inv_ecm_common(x, n)
            /\ h_ret = inv_ecm(x, n)

(* a negative x inverted by the asserting variant, with an inverse above 1 *)
C7_Witness ==
    /\ InvDone("inv_ecm_common")
    /\ h_args.x < 0
    /\ h_ret.kind = "return"
    /\ h_ret.val > 1

(* C8 as stated: whenever inv or check raises InverseNotFound(x, n),       *)
(* gcd(x, n) is strictly between 1 and n.                                  *)
C8_Original ==
    (h_pc = "done" /\ h_ret.kind = "InverseNotFound") =>
        (1 < gcd(h_ret.x, h_ret.n) /\ gcd(h_ret.x, h_ret.n) < h_ret.n)

(* C8 amended: whenever inv or check raises InverseNotFound(x, n),         *)
(* gcd(x, n) > 1 and divides n; it is n exactly when x = 0 (mod n) and a   *)
(* non-trivial factor of n otherwise; and the call raises exactly when the *)
(* gcd of its argument with n exceeds 1.                                   *)
C8_Amended ==
    h_pc = "done" =>
        LET g == gcd(h_ret.x, h_ret.n) IN
        /\ h_ret.kind = "InverseNotFound" <=> gcd(h_args.x, h_args.n) > 1
        /\ h_ret.kind = "InverseNotFound" =>
             /\ h_ret.n = h_args.n
             /\ g > 1
             /\ h_ret.n % g = 0
             /\ (g = h_ret.n) <=> (h_ret.x % h_ret.n = 0)
             /\ (h_ret.x % h_ret.n # 0) => (1 < g /\ g < h_ret.n)

(* the check gate raising on a z that shares a proper factor with n *)
C8_Witness ==
    /\ InvDone("check")
    /\ h_ret.kind = "InverseNotFound"
    /\ 1 < gcd(h_ret.x, h_ret.n)
    /\ gcd(h_ret.x, h_ret.n) < h_ret.n

IsDistinct(xs) == \A i, j \in DOMAIN xs : xs[i] = xs[j] => i = j

RECURSIVE ProdMod(_, _)
ProdMod(xs, n) ==
    IF xs = <<>> THEN 1 % n ELSE (Head(xs) * ProdMod(Tail(xs), n)) % n

(* C9: for pairwise distinct residues xs, all coprime to n, of any length  *)
(* >= 1, inv_multi(xs, n) returns a dict whose keys are exactly xs and     *)
(* whose value at x is inv(x, n).                                          *)
C9_InvMultiAgrees ==
    (InvDone("inv_multi") /\ IsDistinct(h_args.xs)
        /\ \A i \in DOMAIN h_args.xs : gcd(h_args.xs[i], h_args.n) = 1) =>
        /\ h_ret.kind = "return"
        /\ DictKeys(h_ret.val) = Range(h_args.xs)
        /\ Len(h_ret.val) = Len(h_args.xs)
        /\ \A i \in DOMAIN h_args.xs :
             /\ h_ret.val[i][1] = h_args.xs[i]
             /\ Returned(h_ret.val[i][2]) = inv(h_args.xs[i], h_args.n)

(* a list of three (not a power of two) with an inverse that is not 1 *)
C9_Witness ==
    /\ InvDone("inv_multi")
    /\ Len(h_args.xs) = 3
    /\ IsDistinct(h_args.xs)
    /\ h_ret.kind = "return"
    /\ \E i \in DOMAIN h_ret.val : h_ret.val[i][2] > 1 /\ h_ret.val[i][2] # h_ret.val[i][1]

HasNonCoprime(xs, n) == \E i \in DOMAIN xs : gcd(xs[i], n) > 1

(* C10 as stated: if some element has gcd(x, n) > 1, inv_multi raises      *)
(* InverseNotFound, returns nothing, and the x it carries is one of the    *)
(* input elements with gcd(x, n) > 1.                                      *)
C10_Original ==
    (InvDone("inv_multi") /\ HasNonCoprime(h_args.xs, h_args.n)) =>
        /\ h_ret.kind = "InverseNotFound"
        /\ \E i \in DOMAIN h_args.xs :
             h_args.xs[i] = h_ret.x /\ gcd(h_args.xs[i], h_args.n) > 1

(* C10 amended: if some element has gcd(x, n) > 1, inv_multi raises        *)
(* InverseNotFound(x, n) and returns nothing, where x is the product of    *)
(* all the elements reduced mod n (not in general an element) and          *)
(* gcd(x, n) > 1; it raises in no other case.                              *)
C10_Amended ==
    InvDone("inv_multi") =>
        /\ HasNonCoprime(h_args.xs, h_args.n) <=> h_ret.kind = "InverseNotFound"
        /\ HasNonCoprime(h_args.xs, h_args.n) =>
             /\ h_ret = InverseNotFound(ProdMod(h_args.xs, h_args.n), h_args.n)
             /\ gcd(h_ret.x, h_args.n) > 1

(* three elements, one of them not coprime, and the product is no element *)
C10_Witness ==
    /\ InvDone("inv_multi")
    /\ Len(h_args.xs) = 3
    /\ h_ret.kind = "InverseNotFound"
    /\ h_ret.x \notin Range(h_args.xs)
    /\ gcd(h_ret.x, h_ret.n) < h_ret.n

(***************************************************************************)
(* The factorize driver of src/wheel_sieve/factorize.py.                   *)
(***************************************************************************)
SmallPrimeBound == 1033     \* factorize: factor_small_primes(n, 1033)

(* defaultdict(int): d[k] += v *)
DictAdd(d, k, v) == DictSet(d, k, (IF DictHas(d, k) THEN DictGet(d, k) ELSE 0) + v)

(* d.pop(k): the dict without the key *)
DictPop(d, k) == SelectSeq(d, LAMBDA item : item[1] # k)

(* d.popitem(): the last inserted item leaves *)
DictPopItem(d) == [item |-> d[Len(d)], rest |-> SubSeq(d, 1, Len(d) - 1)]

KeyList(d) == [i \in DOMAIN d |-> d[i][1]]

(* factor_small_primes, lines 24-27: divide x by prime while it divides *)
RECURSIVE divide_out_mutant(_, _, _)
divide_out_mutant(x, prime, power) ==
    IF x % prime = 0 THEN divide_out_mutant(x \div prime, prime, 1)
    ELSE [x |-> x, power |-> power]

RECURSIVE divide_out(_, _, _)
divide_out(x, prime, power) ==
    IF x % prime = 0 THEN divide_out(x \div prime, prime, power + 1)
    ELSE [x |-> x, power |-> power]

(***************************************************************************)
(* lines 22-29: for prime in primes, in order; the iterations lo..hi-1,    *)
(* split in two halves run one after the other.  x never drops below 1.    *)
(***************************************************************************)
RECURSIVE fsp_loop(_, _, _, _, _)
fsp_loop(primes, lo, hi, x, pf) ==
    IF lo >= hi THEN [prime_factors |-> pf, x |-> x]
    ELSE IF lo + 1 = hi
    THEN LET r == divide_out(x, primes[lo], 0) IN
         IF r.power > 0
         THEN [prime_factors |-> DictSet(pf, primes[lo], r.power), x |-> r.x]
         ELSE [prime_factors |-> pf, x |-> x]
    ELSE LET mid == (lo + hi) \div 2
             first == fsp_loop(primes, lo, mid, x, pf)
         IN  IF first.x >= 1 /\ Len(first.prime_factors) >= 0
             THEN fsp_loop(primes, mid, hi, first.x, first.prime_factors)
             ELSE first

SmallPrimes == PRIME_GEN(SmallPrimeBound)

factor_small_primes(n, primes) == fsp_loop(primes, 1, Len(primes) + 1, n, <<>>)

(* factor_power: the first prime power < ubound for which n is a perfect power *)
RECURSIVE fp_loop(_, _, _)
fp_loop(n, powers, i) ==
    IF i > Len(powers) THEN [factor |-> NoneInt, power |-> NoneInt]
    ELSE LET factor == inv_power(n, powers[i]) IN
         IF factor # NoneInt THEN [factor |-> factor, power |-> powers[i]]
         ELSE fp_loop(n, powers, i + 1)

factor_power(n, ubound) == fp_loop(n, PRIME_GEN(ubound), 1)

(***************************************************************************)
(* factorize, lines 99-107: the recorded prime factor_i absorbs the keys   *)
(* it divides, first of working_dict, then of remaining_factors.  st is    *)
(* [wd, rf, power_i]; keys is the snapshot list(dt.keys()).                *)
(***************************************************************************)
RECURSIVE strip(_, _, _, _)
strip(factor_j, factor_i, power_i, power_j) ==
    IF factor_j % factor_i = 0
    THEN strip(factor_j \div factor_i, factor_i, power_i + power_j, power_j)
    ELSE [factor_j |-> factor_j, power_i |-> power_i]

absorb_one_mutant(st, in_wd, factor_j, factor_i) ==
    IF factor_j % factor_i # 0 THEN st
    ELSE LET dt == IF in_wd THEN st.wd ELSE st.rf
             power_j == DictGet(dt, factor_j)
             r == strip(factor_j, factor_i, st.power_i, power_j)
         IN  [wd |-> IF in_wd THEN DictPop(st.wd, factor_j) ELSE st.wd,
              rf |-> IF in_wd THEN st.rf ELSE DictPop(st.rf, factor_j),
              power_i |-> r.power_i]

absorb_one(st, in_wd, factor_j, factor_i) ==
    IF factor_j % factor_i # 0 THEN st
    ELSE LET dt == IF in_wd THEN st.wd ELSE st.rf
             power_j == DictGet(dt, factor_j)
             wd1 == IF in_wd THEN DictPop(st.wd, factor_j) ELSE st.wd
             rf1 == IF in_wd THEN st.rf ELSE DictPop(st.rf, factor_j)
             r == strip(factor_j, factor_i, st.power_i, power_j)
         IN  [wd |-> IF r.factor_j > 1 THEN DictAdd(wd1, r.factor_j, power_j) ELSE wd1,
              rf |-> rf1,
              power_i |-> r.power_i]

RECURSIVE absorb_keys(_, _, _, _, _)
absorb_keys(st, in_wd, keys, i, factor_i) ==
    IF i > Len(keys) THEN st
    ELSE absorb_keys(absorb_one(st, in_wd, keys[i], factor_i), in_wd, keys, i + 1, factor_i)

absorb_mutant(wd, rf, factor_i, power_i) ==
    absorb_keys([wd |-> wd, rf |-> rf, power_i |-> power_i], TRUE, KeyList(wd), 1, factor_i)

absorb(wd, rf, factor_i, power_i) ==
    LET st1 == absorb_keys([wd |-> wd, rf |-> rf, power_i |-> power_i],
                           TRUE, KeyList(wd), 1, factor_i)
    IN  absorb_keys(st1, FALSE, KeyList(st1.rf), 1, factor_i)

(***************************************************************************)
(* factor_ecm(factor_i, ecm_kwargs_list, seed=2): the curves are drawn at  *)
(* random, so the call returns None or any divisor d of n with 1 < d < n   *)
(* (what ecm can return).  The composites of the model are products of     *)
(* the primes in BigPrimes.                                                *)
(***************************************************************************)
BigPrimes == {1033, 1039, 1049}

RECURSIVE BigProducts(_)
BigProducts(k) ==
    IF k = 0 THEN {1}
    ELSE LET prev == BigProducts(k - 1) IN
         prev \cup {x * q : x \in {y \in prev : y <= MaxN \div 1049}, q \in BigPrimes}

BigParts == BigProducts(MaxBigFactors)

factor_ecm_mutant(n) == {NoneInt} \cup {f \in BigParts : 1 < f /\ f <= n /\ n % f = 0}

factor_ecm(n) == {NoneInt} \cup {f \in BigParts : 1 < f /\ f < n /\ n % f = 0}

(* the arguments of factorize in the model *)
SmallParts == {1, 2, 12, 997}

DriverInputs ==
    ((-MaxNeg)..MaxSmallN)
    \cup {s * b : s \in SmallParts, b \in {y \in BigParts : y <= MaxN \div 997}}
    \cup {b \in BigParts : b > 1}
    \cup {339179400, 1000000007}

(***************************************************************************)
(* The pure functions the driver calls, tabulated once over the values it  *)
(* can meet: the arguments of factorize, and the cofactors that trial      *)
(* division leaves together with their divisors.                           *)
(***************************************************************************)
LoopValues == {b \in BigParts : b > 1} \cup {1000000007}

small_primes_of == [n \in {m \in DriverInputs : m >= 1} |-> factor_small_primes(n, SmallPrimes)]

is_probable_prime == [c \in LoopValues |-> miller_rabin(c, DefaultWitness)]

power_of == [c \in LoopValues |-> factor_power(c, bit_length(c) \div 10 + 1)]

InitDriver ==
    /\ HarnessIdle
    /\ EcmIdle
    /\ SieveIdle
    /\ d_pc = "entry"
    /\ d_n \in DriverInputs
    /\ prime_factors = <<>>
    /\ working_dict = <<>>
    /\ remaining_factors = <<>>
    /\ d_calls = {}
    /\ d_iter = 0

(* line 88: if n < 2 *)
factorize_rejects_mutant(n) == n < 1

factorize_rejects(n) == n < 2

(* lines 88-89 *)
FactorizeRaise ==
    /\ d_pc = "entry"
    /\ factorize_rejects(d_n)
    /\ d_pc' = "raised"
    /\ UNCHANGED <<d_n, prime_factors, working_dict, remaining_factors, d_calls, d_iter, hvars, evars, svars>>

(* lines 90-92: trial division leaves 1 *)
FactorizeSmall ==
    /\ d_pc = "entry"
    /\ ~factorize_rejects(d_n)
    /\ LET r == small_primes_of[d_n] IN
         /\ r.x = 1
         /\ prime_factors' = r.prime_factors
    /\ d_pc' = "returned"
    /\ d_calls' = d_calls \cup {"factor_small_primes"}
    /\ UNCHANGED <<d_n, working_dict, remaining_factors, d_iter, hvars, evars, svars>>

(* lines 90-95: trial division leaves a factor > 1 *)
FactorizeEnter ==
    /\ d_pc = "entry"
    /\ ~factorize_rejects(d_n)
    /\ LET r == small_primes_of[d_n] IN
         /\ r.x # 1
         /\ prime_factors' = r.prime_factors
         /\ working_dict' = <<  <<r.x, 1>>  >>
    /\ d_pc' = "loop"
    /\ d_calls' = d_calls \cup {"factor_small_primes"}
    /\ UNCHANGED <<d_n, remaining_factors, d_iter, hvars, evars, svars>>

(* lines 97-108: the popped entry passes miller_rabin *)
LoopPrime ==
    /\ d_pc = "loop"
    /\ working_dict # <<>>
    /\ LET p == DictPopItem(working_dict)
           factor_i == p.item[1]
           power_i == p.item[2]
       IN  /\ is_probable_prime[factor_i]
           /\ LET st == absorb(p.rest, remaining_factors, factor_i, power_i) IN
                /\ working_dict' = st.wd
                /\ remaining_factors' = st.rf
                /\ prime_factors' = DictSet(prime_factors, factor_i, st.power_i)
                /\ d_calls' = d_calls \cup {"miller_rabin"}
                        \cup (IF st.rf # remaining_factors THEN {"unresolved.pop"} ELSE {})
    /\ d_iter' = d_iter + 1
    /\ UNCHANGED <<d_pc, d_n, hvars, evars, svars>>

(* lines 110-113: the popped entry is a perfect power *)
LoopPower ==
    /\ d_pc = "loop"
    /\ working_dict # <<>>
    /\ LET p == DictPopItem(working_dict)
           factor_i == p.item[1]
           power_i == p.item[2]
       IN  /\ ~is_probable_prime[factor_i]
           /\ LET r == power_of[factor_i] IN
                /\ r.factor # NoneInt
                /\ working_dict' = DictAdd(p.rest, r.factor, power_i * r.power)
    /\ d_calls' = d_calls \cup {"miller_rabin", "factor_power"}
    /\ d_iter' = d_iter + 1
    /\ UNCHANGED <<d_pc, d_n, prime_factors, remaining_factors, hvars, evars, svars>>

(* lines 114-148: ECM finds a factor *)
LoopEcmFactor ==
    /\ d_pc = "loop"
    /\ working_dict # <<>>
    /\ LET p == DictPopItem(working_dict)
           factor_i == p.item[1]
           power_i == p.item[2]
       IN  /\ ~is_probable_prime[factor_i]
           /\ power_of[factor_i].factor = NoneInt
           /\ \E factor \in factor_ecm(factor_i) :
                /\ factor # NoneInt
                /\ working_dict' = DictAdd(DictAdd(p.rest, factor_i \div factor, power_i),
                                           factor, power_i)
    /\ d_calls' = d_calls \cup {"miller_rabin", "factor_power", "ecm"}
    /\ d_iter' = d_iter + 1
    /\ UNCHANGED <<d_pc, d_n, prime_factors, remaining_factors, hvars, evars, svars>>

(* lines 114-149: every ECM schedule returns None *)
LoopUnresolved ==
    /\ d_pc = "loop"
    /\ working_dict # <<>>
    /\ LET p == DictPopItem(working_dict)
           factor_i == p.item[1]
           power_i == p.item[2]
       IN  /\ ~is_probable_prime[factor_i]
           /\ power_of[factor_i].factor = NoneInt
           /\ NoneInt \in factor_ecm(factor_i)
           /\ working_dict' = p.rest
           /\ remaining_factors' = DictAdd(remaining_factors, factor_i, power_i)
    /\ d_calls' = d_calls \cup {"miller_rabin", "factor_power", "ecm"}
    /\ d_iter' = d_iter + 1
    /\ UNCHANGED <<d_pc, d_n, prime_factors, hvars, evars, svars>>

(* lines 96, 150: the worklist is empty *)
LoopExit ==
    /\ d_pc = "loop"
    /\ working_dict = <<>>
    /\ d_pc' = "returned"
    /\ UNCHANGED <<d_n, prime_factors, working_dict, remaining_factors, d_calls, d_iter, hvars, evars, svars>>

NextDriver ==
    \/ FactorizeRaise
    \/ FactorizeSmall
    \/ FactorizeEnter
    \/ LoopPrime
    \/ LoopPower
    \/ LoopEcmFactor
    \/ LoopUnresolved
    \/ LoopExit

SpecDriver == InitDriver /\ [][NextDriver]_vars

(* the loop runs to its end: no step of the single-threaded call is withheld *)
SpecDriverFair == SpecDriver /\ WF_vars(NextDriver)

(***************************************************************************)
(* Claims about factorize.                                                 *)
(***************************************************************************)
(* the product of key^multiplicity over a dict; MaxInt when it exceeds it *)
RECURSIVE DictProd(_, _)
DictProd(d, i) ==
    IF i > Len(d) THEN 1
    ELSE MulSat(PowSat(d[i][1], d[i][2]), DictProd(d, i + 1))

HasNoDuplicateKey(d) == \A i, j \in DOMAIN d : d[i][1] = d[j][1] => i = j

InLoopOrReturned == d_pc \in {"loop", "returned"}

(* C1: for N >= 2, before and after every iteration of the driver loop and *)
(* at the return, the product of key^multiplicity over prime_factors, the  *)
(* worklist and the unresolved map equals N; at the return the worklist is *)
(* empty, so the two returned maps reconstruct N exactly.                  *)
C1_ProductIsN ==
    InLoopOrReturned =>
        /\ MulSat(DictProd(prime_factors, 1),
                  MulSat(DictProd(working_dict, 1), DictProd(remaining_factors, 1))) = d_n
        /\ HasNoDuplicateKey(prime_factors)
        /\ HasNoDuplicateKey(working_dict)
        /\ HasNoDuplicateKey(remaining_factors)
        /\ (d_pc = "returned" => working_dict = <<>>)

(* a return, after three iterations or more, with a prime found by the loop *)
(* and an unresolved composite                                             *)
C1_Witness ==
    /\ d_pc = "returned"
    /\ remaining_factors # <<>>
    /\ \E i \in DOMAIN prime_factors : prime_factors[i][1] >= SmallPrimeBound
    /\ d_iter >= 3

(* the multiplicity of p in n, and the primes below 1033 dividing n *)
Multiplicity(n, p) ==
    CHOOSE k \in 0..31 : n % PowSat(p, k) = 0 /\ n % PowSat(p, k + 1) # 0

SmallDivisors(n) == {p \in 2..(SmallPrimeBound - 1) : IsPrime(p) /\ n % p = 0}

RECURSIVE SmoothPart(_, _)
SmoothPart(n, ps) ==
    IF ps = {} THEN 1
    ELSE LET p == CHOOSE q \in ps : TRUE IN
         PowSat(p, Multiplicity(n, p)) * SmoothPart(n, ps \ {p})

AllFactorsSmall(n) == n >= 2 /\ SmoothPart(n, SmallDivisors(n)) = n

(* C2: when every prime factor of N >= 2 is below 1033, factorize returns  *)
(* exactly the map from each prime divisor of N to its multiplicity and an *)
(* empty unresolved map, and no iteration of the worklist loop has run.    *)
C2_SmoothExact ==
    (d_pc = "returned" /\ AllFactorsSmall(d_n)) =>
        /\ {<<prime_factors[i][1], prime_factors[i][2]>> : i \in DOMAIN prime_factors}
             = {<<p, Multiplicity(d_n, p)>> : p \in SmallDivisors(d_n)}
        /\ Len(prime_factors) = Cardinality(SmallDivisors(d_n))
        /\ remaining_factors = <<>>
        /\ d_iter = 0
        /\ d_calls = {"factor_small_primes"}

C2_Witness ==
    /\ d_pc = "returned"
    /\ AllFactorsSmall(d_n)
    /\ Len(prime_factors) >= 5
    /\ \E i \in DOMAIN prime_factors : prime_factors[i][2] >= 5

(* the work left: the keys of the worklist, and half of each unresolved key *)
RECURSIVE KeySum(_, _, _)
KeySum(d, i, divisor) ==
    IF i > Len(d) THEN 0 ELSE (d[i][1] \div divisor) + KeySum(d, i + 1, divisor)

WorkLeft(wd, rf) == KeySum(wd, 1, 1) + KeySum(rf, 1, 2)

Terminated == d_pc \in {"returned", "raised"}

(* C3: every iteration of the worklist loop strictly reduces the work left *)
(* (a prime leaves the worklist, a composite is replaced by strictly       *)
(* smaller entries or moves to the unresolved map, an entry pulled back    *)
(* from the unresolved map comes back strictly reduced), no entry is ever  *)
(* 1, and every call of factorize eventually terminates.                   *)
C3_LoopTerminates ==
    /\ [][(d_pc = "loop" /\ d_iter' # d_iter) =>
            /\ WorkLeft(working_dict', remaining_factors')
                 < WorkLeft(working_dict, remaining_factors)
            /\ \A i \in DOMAIN working_dict' : working_dict'[i][1] > 1]_vars
    /\ <>Terminated

(* the loop has ended after an entry was pulled back from the unresolved map *)
C3_Witness ==
    /\ d_pc = "returned"
    /\ "unresolved.pop" \in d_calls
    /\ \E i \in DOMAIN prime_factors :
         prime_factors[i][1] >= SmallPrimeBound /\ prime_factors[i][2] >= 2

(* C6: for N < 2 factorize raises ValueError, and does so before any trial *)
(* division, primality test, perfect-power test or ECM call.               *)
C6_RaisesFirst ==
    /\ [](d_n < 2 => (d_pc \in {"entry", "raised"} /\ d_calls = {} /\ d_iter = 0))
    /\ [](d_pc = "raised" => d_n < 2)
    /\ <>(d_n < 2 => d_pc = "raised")

C6_Witness == d_pc = "raised" /\ d_n < 2 /\ d_calls = {}

(***************************************************************************)
(* The Montgomery-curve arithmetic of src/ecm_montgomery.py.  A point is   *)
(* <<x, z>>, a curve <<A, s, n>>.  Python computes on unbounded integers   *)
(* and reduces mod n at the % signs; the model reduces every operand       *)
(* first, which gives the same residues.  The moduli are below 2^29, so a  *)
(* sum of four residues is exact.                                          *)
(***************************************************************************)
CurveInitFail == [kind |-> "CurveInitFail", val |-> 0, x |-> 0, n |-> 0]

TypeError == [kind |-> "TypeError", val |-> 0, x |-> 0, n |-> 0]

(* the statements after a call that may raise: skipped when it raised *)
Bind(r, rest(_)) == IF r.kind # "return" THEN r ELSE rest(r.val)

(* the guard "if 1 < res < n" in front of every return of a factor *)
is_factor_mutant(res, n) == 1 < res /\ res <= n

is_factor(res, n) == 1 < res /\ res < n

(* (a * b) % n *)
Mul(a, b, n) == MulMod(a % n, b % n, n)

Cube(a, n) == Mul(Mul(a, a, n), a, n)

get_curve_suyama(sigma, n) ==
    LET from_uv(u, v) ==       \* u is sigma ** 2 - (5 % n)
            LET from_A(A) ==
                    IF A \in {n - 2, 2} THEN CurveInitFail
                    ELSE Bind(inv_ecm_common(4, n), LAMBDA four_inv :
                              Returned(<< <<Cube(u, n), Cube(v, n)>>,
                                          <<A, Mul(A + 2, four_inv, n), n>> >>))
            IN  Bind(inv_ecm_common(Mul(Mul(4, Cube(u, n), n), v, n), n), LAMBDA i :
                     from_A((Mul(Mul(Cube(v - u, n), 3 * u + v, n), i, n) - 2) % n))
    IN  IF \/ sigma % n \in {n - 5, n - 3, n - 1, 0, 1, 3, 5}
           \/ Mul(sigma, 3, n) \in {n - 5, 5}
        THEN CurveInitFail
        ELSE from_uv(Mul(sigma, sigma, n) - 5, Mul(4, sigma, n))

add_pt(ptp, ptq, pt_, curve) ==
    LET n == curve[3]
        from_uv(u, v) == << Mul(pt_[2], Mul(u + v, u + v, n), n),
                            Mul(pt_[1], Mul(u - v, u - v, n), n) >>
    IN  from_uv(Mul(ptp[1] - ptp[2], ptq[1] + ptq[2], n),
                Mul(ptp[1] + ptp[2], ptq[1] - ptq[2], n))

dbl_pt(pt, curve) ==
    LET n == curve[3]
        from_ab(a, b) == << Mul(a, b, n),
                            Mul(a - b, (b + Mul(curve[2], a - b, n)) % n, n) >>
    IN  from_ab(Mul(pt[1] + pt[2], pt[1] + pt[2], n),
                Mul(pt[1] - pt[2], pt[1] - pt[2], n))

ladder_step_mutant(st, pt, curve, k) ==
    IF (k \div Pow2(st.j)) % 2 = 1
    THEN [res0 |-> add_pt(st.res1, st.res0, pt, curve),
          res1 |-> dbl_pt(st.res1, curve), j |-> st.j - 1]
    ELSE [res0 |-> dbl_pt(st.res0, curve),
          res1 |-> dbl_pt(st.res1, curve), j |-> st.j - 1]

(* mul_pt_exn, lines 198-205: one pass of the ladder; st holds res0, res1, j *)
ladder_step(st, pt, curve, k) ==
    IF (k \div Pow2(st.j)) % 2 = 1
    THEN [res0 |-> add_pt(st.res1, st.res0, pt, curve),
          res1 |-> dbl_pt(st.res1, curve), j |-> st.j - 1]
    ELSE [res0 |-> dbl_pt(st.res0, curve),
          res1 |-> add_pt(st.res1, st.res0, pt, curve), j |-> st.j - 1]

RECURSIVE mnt_mul_pt_exn(_, _, _)
mnt_mul_pt_exn(pt, curve, k) ==
    LET last_bit(st) ==       \* lines 206-210
            check(IF k % 2 = 1 THEN add_pt(st.res1, st.res0, pt, curve)
                  ELSE dbl_pt(st.res0, curve), curve)
    IN  IF k < 0 THEN mnt_mul_pt_exn(pt, curve, -k)
        ELSE IF k = 0 THEN check(<<0, 0>>, curve)
        ELSE IF k = 1 THEN check(pt, curve)
        ELSE IF k = 2 THEN check(dbl_pt(pt, curve), curve)
        ELSE last_bit(Iterate(LAMBDA w : ladder_step(w, pt, curve, k),
                              [res0 |-> pt, res1 |-> dbl_pt(pt, curve),
                               j |-> bit_length(k) - 2],
                              bit_length(k) - 2))

mnt_add_pt_exn(ptp, ptq, pt_, curve) == check(add_pt(ptp, ptq, pt_, curve), curve)

(* int(np.log(b1) / np.log(p)): the largest e with p^e <= b1.  The float   *)
(* quotient can round either way when b1 is an exact power of p, so the    *)
(* calls below use bounds b1 that are not prime powers.                    *)
log_floor(b1, p) == CHOOSE e \in 0..31 : PowLeq(p, e, b1) /\ ~PowLeq(p, e + 1, b1)

(* one multiplication of a chain that stops at the first exception *)
mnt_mul_step(st, curve, k) ==
    IF st.kind # "return" THEN st ELSE mnt_mul_pt_exn(st.val, curve, k)

(* Step 1, lines 277-281 *)
mnt_stage1(pt, curve, b1) ==
    LET primes == PRIME_GEN(b1) IN
    Iterate(LAMBDA w : [out |-> Iterate(LAMBDA v : mnt_mul_step(v, curve, primes[w.i]),
                                        w.out, log_floor(b1, primes[w.i])),
                        i |-> w.i + 1],
            [out |-> Returned(pt), i |-> 1], Len(primes)).out

(* j_list of init_wheel: the j in range(1, wheel // 2) coprime to wheel *)
j_list_of(wheel) ==
    SelectSeq([j \in 1..(wheel \div 2 - 1) |-> j], LAMBDA j : gcd(j, wheel) = 1)

(* the bit of prime_array for row c (counted from c1) and wheel residue j: *)
(* set when (c1 + c) * wheel + j or (c1 + c) * wheel - j is a prime of     *)
(* [b1, b2), for b1 above the prime factors of the wheel                   *)
prime_array(b1, b2, wheel, c, j) ==
    \E p \in {((b1 \div wheel) + c) * wheel + j, ((b1 \div wheel) + c) * wheel - j} :
        b1 <= p /\ p < b2 /\ IsPrime(p)

(* A stage ends with the exception it raised, with the factor it returned  *)
(* and the site of that return, or with "end" when it ran to its last line *)
StageReturn(res, site) == [kind |-> "return", val |-> res, site |-> site, x |-> 0, n |-> 0]

StageRaise(exc) == [kind |-> exc.kind, val |-> 0, site |-> "raise", x |-> exc.x, n |-> exc.n]

StageEnd == [kind |-> "end", val |-> 0, site |-> "end", x |-> 0, n |-> 0]

StageRunning == [kind |-> "running", val |-> 0, site |-> "", x |-> 0, n |-> 0]

(* Bind for a stage: the exception ends the stage *)
StageBind(r, rest(_)) == IF r.kind # "return" THEN StageRaise(r) ELSE rest(r.val)

(* the loop of a stage is over: its outcome, or the lines after the loop *)
LoopOver(st, rest(_)) == IF st.out.kind # "running" THEN st.out ELSE rest(st)

(* lines 286-289: xj_list, or the first exception *)
mnt_xj_step(st, q, curve, js) ==
    LET failed(exc) == [st EXCEPT !.out = StageRaise(exc)]
        from_pt(r) ==
            IF r.kind # "return" THEN failed(r)
            ELSE LET from_inv(zi) ==
                         IF zi.kind # "return" THEN failed(zi)
                         ELSE [st EXCEPT !.xj_list = Append(@, Mul(r.val[1], zi.val, curve[3])),
                                         !.i = @ + 1]
                 IN  from_inv(inv_ecm_common(r.val[2], curve[3]))
    IN  IF st.out.kind # "running" THEN st
        ELSE from_pt(mnt_mul_pt_exn(q, curve, js[st.i]))

mnt_xj_list(q, curve, js) ==
    Iterate(LAMBDA st : mnt_xj_step(st, q, curve, js),
            [xj_list |-> <<>>, i |-> 1, out |-> StageRunning], Len(js))

MntWheel == 2310

(* lines 297-301: the product s of the flagged, non-zero terms of row c *)
mnt_accumulate(xj_list, js, cq, b1, b2, c, n) ==
    LET times(s, t) == IF t # 0 THEN Mul(s, t, n) ELSE s IN
    Iterate(LAMBDA st :
                [s |-> IF prime_array(b1, b2, MntWheel, c, js[st.i])
                       THEN times(st.s, (Mul(xj_list[st.i], cq[2], n) - cq[1]) % n)
                       ELSE st.s,
                 i |-> st.i + 1],
            [s |-> 1, i |-> 1], Len(xj_list)).s

(* lines 305-312: the per-term scan after s turned out a multiple of n *)
mnt_per_term(xj_list, cq, n) ==
    LET g(i) == gcd((Mul(xj_list[i], cq[2], n) - cq[1]) % n, n)
        first_of(hits) ==
            IF hits = {} THEN StageRaise(AssertionError)
            ELSE StageReturn(g(CHOOSE i \in hits : \A k \in hits : i <= k), "per_term")
    IN  first_of({i \in DOMAIN xj_list : is_factor(g(i), n)})

(* lines 295-314: one pass of the while loop; st holds c, cq, cq_, out *)
mnt_loop_step(st, mq, xj_list, js, curve, b1, b2) ==
    LET n == curve[3]
        advance(nxt) ==
            IF nxt.kind # "return" THEN [st EXCEPT !.out = StageRaise(nxt)]
            ELSE [c |-> st.c + 1, cq |-> nxt.val, cq_ |-> st.cq, out |-> st.out]
        from_res(res) ==
            IF is_factor(res, n)
            THEN [st EXCEPT !.out = StageReturn(res, "accumulated")]
            ELSE IF res = n
            THEN [st EXCEPT !.out = mnt_per_term(xj_list, st.cq, n)]
            ELSE advance(mnt_add_pt_exn(st.cq, mq, st.cq_, curve))
    IN  IF st.out.kind # "running" THEN st
        ELSE from_res(gcd(mnt_accumulate(xj_list, js, st.cq, b1, b2, st.c, n), n))

(* Step 2, lines 282-315 *)
mnt_stage2(q, curve, b1, b2) ==
    LET js == j_list_of(MntWheel)
        c1 == b1 \div MntWheel
        c2 == b2 \div MntWheel + 2
        loop(mq, xj_list, cq, cq_) ==
            LoopOver(Iterate(LAMBDA st : mnt_loop_step(st, mq, xj_list, js, curve, b1, b2),
                             [c |-> 0, cq |-> cq, cq_ |-> cq_, out |-> StageRunning],
                             IF c2 > c1 THEN c2 - c1 ELSE 0),
                     LAMBDA st : StageEnd)
    IN  StageBind(mnt_mul_pt_exn(q, curve, MntWheel), LAMBDA mq :
        LoopOver(mnt_xj_list(q, curve, js), LAMBDA xj :
        StageBind(mnt_mul_pt_exn(q, curve, c1 * MntWheel), LAMBDA cq :
        StageBind(mnt_mul_pt_exn(q, curve, (c1 - 1) * MntWheel), LAMBDA cq_ :
        loop(mq, xj.xj_list, cq, cq_)))))

(* the try block of a round, lines 276-315 *)
mnt_stages(pt, curve, b1, b2) ==
    StageBind(mnt_stage1(pt, curve, b1), LAMBDA q : mnt_stage2(q, curve, b1, b2))

(***************************************************************************)
(* The affine arithmetic of src/wheel_sieve/ecm/ecm_weierstrass.py.  A     *)
(* point is <<x, y>> or NonePt (the point at infinity), a curve <<a, b, n>>*)
(***************************************************************************)
NonePt == <<NoneInt, NoneInt>>

get_curve(pt0, a, n) ==
    <<a, (Mul(pt0[2], pt0[2], n) - Cube(pt0[1], n) - Mul(a, pt0[1], n)) % n, n>>

get_delta(curve) ==
    gcd(AddMod(Mul(4, Cube(curve[1], curve[3]), curve[3]),
               Mul(27, Mul(curve[2], curve[2], curve[3]), curve[3]), curve[3]),
        curve[3]) % curve[3]

neg_pt_mutant(pt, curve) == pt

neg_pt(pt, curve) == IF pt = NonePt THEN NonePt ELSE <<pt[1], curve[3] - pt[2]>>

(* add_pt_gen with the inversion add_pt_exn feeds it *)
wst_add_pt_exn(pt1, pt2, curve) ==
    LET n == curve[3]
        from_xr(s, xr) == <<xr, (Mul(s, pt1[1] - xr, n) - pt1[2]) % n>>
        from_s(s) == from_xr(s, (Mul(s, s, n) - (pt1[1] % n) - (pt2[1] % n)) % n)
    IN  IF pt1 = NonePt THEN Returned(pt2)
        ELSE IF pt2 = NonePt THEN Returned(pt1)
        ELSE IF pt1 = pt2
        THEN Bind(inv(Mul(2, pt1[2], n), n), LAMBDA res :
                  Returned(from_s(Mul(Mul(3, Mul(pt1[1], pt1[1], n), n) + curve[1], res, n))))
        ELSE Bind(inv((pt2[1] - pt1[1]) % n, n), LAMBDA res :
                  Returned(from_s(Mul(pt2[2] - pt1[2], res, n))))

(* mul_pt_exn, lines 136-140: one pass of the loop; st holds res, point, k *)
wst_mul_step(st, curve) ==
    LET from_sums(r1, r2) ==
            IF r1.kind # "return" THEN [st EXCEPT !.out = r1]
            ELSE IF r2.kind # "return" THEN [st EXCEPT !.out = r2]
            ELSE [res |-> r1.val, point |-> r2.val, k |-> st.k \div 2, out |-> st.out]
    IN  IF st.out.kind # "none" THEN st
        ELSE from_sums(IF st.k % 2 = 1 THEN wst_add_pt_exn(st.res, st.point, curve)
                       ELSE Returned(st.res),
                       wst_add_pt_exn(st.point, st.point, curve))

wst_mul_pt_exn(point, curve, k) ==
    LET loop_over(st) == IF st.out.kind # "none" THEN st.out ELSE Returned(st.res) IN
    loop_over(Iterate(LAMBDA w : wst_mul_step(w, curve),
                      [res |-> NonePt,
                       point |-> IF k < 0 THEN neg_pt(point, curve) ELSE point,
                       k |-> Abs(k), out |-> NoOutcome],
                      IF k = 0 THEN 0 ELSE bit_length(Abs(k))))

wst_chain_step(st, curve, k) ==
    IF st.kind # "return" THEN st ELSE wst_mul_pt_exn(st.val, curve, k)

(* k_ls, lines 247-249, and Step 1, lines 269-272 *)
wst_stage1(pt, curve, b1) ==
    LET primes == PRIME_GEN(b1) IN
    Iterate(LAMBDA w : [out |-> wst_chain_step(w.out, curve,
                                    PowSat(primes[w.i], log_floor(b1, primes[w.i]))),
                        i |-> w.i + 1],
            [out |-> Returned(pt), i |-> 1], Len(primes)).out

WstWheel == 210

(* lines 279-284: jq_list, with the return on a factor in a y-coordinate *)
wst_jq_step(st, q, curve, js) ==
    LET from_res(jq, res) ==
            IF is_factor(res, curve[3]) THEN [st EXCEPT !.out = StageReturn(res, "jq")]
            ELSE [st EXCEPT !.jq_list = Append(@, jq), !.i = @ + 1]
        from_pt(r) ==
            IF r.kind # "return" THEN [st EXCEPT !.out = StageRaise(r)]
            ELSE from_res(r.val, gcd(r.val[2], curve[3]))
    IN  IF st.out.kind # "running" THEN st
        ELSE from_pt(wst_mul_pt_exn(q, curve, js[st.i]))

(* lines 288-291 *)
wst_accumulate(jq_list, cq, n) ==
    Iterate(LAMBDA st :
                [s |-> IF cq[1] # jq_list[st.i][1]
                       THEN Mul(st.s, cq[1] - jq_list[st.i][1], n) ELSE st.s,
                 i |-> st.i + 1],
            [s |-> IF cq[2] # 0 THEN cq[2] ELSE 1, i |-> 1], Len(jq_list)).s

(* lines 295-305: the scans after s turned out a multiple of n *)
wst_per_term(jq_list, cq, n) ==
    LET g(i) == gcd(cq[1] - jq_list[i][1], n)
        first_of(hits) ==
            IF hits = {} THEN StageRaise(AssertionError)
            ELSE StageReturn(g(CHOOSE i \in hits : \A k \in hits : i <= k), "per_term")
    IN  IF is_factor(gcd(cq[2], n), n) THEN StageReturn(gcd(cq[2], n), "cq_y")
        ELSE first_of({i \in DOMAIN jq_list : is_factor(g(i), n)})

(* lines 287-307: one pass of the while loop; st holds cq and out.  With   *)
(* cq the point at infinity, (None, None), line 291 subtracts an int from  *)
(* None, which raises TypeError.                                           *)
wst_loop_step(st, mq, jq_list, curve) ==
    LET n == curve[3]
        advance(nxt) ==
            IF nxt.kind # "return" THEN [st EXCEPT !.out = StageRaise(nxt)]
            ELSE [cq |-> nxt.val, out |-> st.out]
        from_res(res) ==
            IF is_factor(res, n)
            THEN [st EXCEPT !.out = StageReturn(res, "accumulated")]
            ELSE IF res = n
            THEN [st EXCEPT !.out = wst_per_term(jq_list, st.cq, n)]
            ELSE advance(wst_add_pt_exn(st.cq, mq, curve))
    IN  IF st.out.kind # "running" THEN st
        ELSE IF st.cq = NonePt THEN [st EXCEPT !.out = StageRaise(TypeError)]
        ELSE from_res(gcd(wst_accumulate(jq_list, st.cq, n), n))

(* Step 2, lines 273-308 *)
wst_stage2(q, curve, b1, b2) ==
    LET js == j_list_of(WstWheel)
        c == (b1 \div WstWheel) * WstWheel
        passes == IF c < b2 + WstWheel
                  THEN (b2 + WstWheel - c + WstWheel - 1) \div WstWheel ELSE 0
    IN  StageBind(wst_mul_pt_exn(q, curve, WstWheel), LAMBDA mq :
        LoopOver(Iterate(LAMBDA st : wst_jq_step(st, q, curve, js),
                         [jq_list |-> <<>>, i |-> 1, out |-> StageRunning], Len(js)),
                 LAMBDA jqs :
        StageBind(wst_mul_pt_exn(q, curve, c), LAMBDA cq :
        LoopOver(Iterate(LAMBDA st : wst_loop_step(st, mq, jqs.jq_list, curve),
                         [cq |-> cq, out |-> StageRunning], passes),
                 LAMBDA st : StageEnd))))

(* the try block of a round, lines 268-308 *)
wst_stages(pt, curve, b1, b2) ==
    StageBind(wst_stage1(pt, curve, b1), LAMBDA q : wst_stage2(q, curve, b1, b2))

(* to_weierstrass with a = (3 + A^2) / (3 B^2) *)
to_weierstrass_mutant(pt, curve) ==
    LET A == curve[1]
        n == curve[3]
        result(t, v, a, b) ==
            IF Mul(v, v, n) # (Cube(t, n) + Mul(a, t, n) + b) % n THEN AssertionError
            ELSE Returned(<< <<t, v>>, <<a, b, n>> >>)
        convert(x_norm, B_inv, three_inv) ==
            result((Mul(x_norm, B_inv, n) + Mul(Mul(A, three_inv, n), B_inv, n)) % n,
                   B_inv % n,
                   Mul(Mul(Mul(3 + Mul(A, A, n), three_inv, n), B_inv, n), B_inv, n),
                   Mul(Mul(2, Cube(A, n), n) - Mul(9, A, n),
                       Cube(Mul(three_inv, B_inv, n), n), n))
        from_x(x_norm) ==
            Bind(inv_ecm_common((Cube(x_norm, n) + Mul(A, Mul(x_norm, x_norm, n), n)
                                 + x_norm) % n, n), LAMBDA B_inv :
            Bind(inv_ecm_common(3, n), LAMBDA three_inv :
            convert(x_norm, B_inv, three_inv)))
    IN  Bind(inv_ecm_common(pt[2], n), LAMBDA z_inv : from_x(Mul(pt[1], z_inv, n)))

(***************************************************************************)
(* to_weierstrass of src/ecm_montgomery.py                                 *)
(***************************************************************************)
to_weierstrass(pt, curve) ==
    LET A == curve[1]
        n == curve[3]
        result(t, v, a, b) ==
            IF Mul(v, v, n) # (Cube(t, n) + Mul(a, t, n) + b) % n THEN AssertionError
            ELSE Returned(<< <<t, v>>, <<a, b, n>> >>)
        convert(x_norm, B_inv, three_inv) ==
            result((Mul(x_norm, B_inv, n) + Mul(Mul(A, three_inv, n), B_inv, n)) % n,
                   B_inv % n,
                   Mul(Mul(Mul(3 - Mul(A, A, n), three_inv, n), B_inv, n), B_inv, n),
                   Mul(Mul(2, Cube(A, n), n) - Mul(9, A, n),
                       Cube(Mul(three_inv, B_inv, n), n), n))
        from_x(x_norm) ==
            Bind(inv_ecm_common((Cube(x_norm, n) + Mul(A, Mul(x_norm, x_norm, n), n)
                                 + x_norm) % n, n), LAMBDA B_inv :
            Bind(inv_ecm_common(3, n), LAMBDA three_inv :
            convert(x_norm, B_inv, three_inv)))
    IN  Bind(inv_ecm_common(pt[2], n), LAMBDA z_inv : from_x(Mul(pt[1], z_inv, n)))

(***************************************************************************)
(* Step 2 of src/wheel_sieve/ecm/ecm_polyeval.py.  Between to_weierstrass  *)
(* and line 200 the engine multiplies points (an inversion may raise       *)
(* InverseNotFound) and evaluates a polynomial at the xj; what reaches     *)
(* line 200 is the remainder tree.  remainder_tree replaces a zero leaf by *)
(* 1 and multiplies the leaves up the tree, so the model takes the leaves  *)
(* as inputs, any non-zero residues, and folds them as lines 109-119 do.   *)
(***************************************************************************)
(* lines 111-113: a leaf that is 0 becomes 1 *)
rem_leaf_mutant(v) == v

rem_leaf(v) == IF v = 0 THEN 1 ELSE v

(* lines 115-119: the root of the tree, the product of its leaves mod n *)
rem_root(leaves, n) ==
    Iterate(LAMBDA st : [s |-> Mul(st.s, leaves[st.i], n), i |-> st.i + 1],
            [s |-> 1, i |-> 1], Len(leaves)).s

(* lines 200-209 *)
polyeval_scan(leaves, n) ==
    LET first_of(hits) ==
            IF hits = {} THEN StageRaise(AssertionError)
            ELSE StageReturn(gcd(leaves[CHOOSE i \in hits : \A k \in hits : i <= k], n),
                             "per_term")
        from_res(res) ==
            IF is_factor(res, n) THEN StageReturn(res, "accumulated")
            ELSE IF res # n THEN StageEnd
            ELSE first_of({i \in DOMAIN leaves : is_factor(gcd(leaves[i], n), n)})
    IN  from_res(gcd(rem_root(leaves, n), n))

(* Step 1 and the conversion, lines 166-176 *)
polyeval_stage1(pt, curve, b1) ==
    Bind(mnt_stage1(pt, curve, b1), LAMBDA q : to_weierstrass(q, curve))

(***************************************************************************)
(* ecm(n, rounds, b1, b2) of the three engines: src/ecm_montgomery.py,     *)
(* src/wheel_sieve/ecm/ecm_weierstrass.py, src/wheel_sieve/ecm/            *)
(* ecm_polyeval.py.  A step is one pass of the for loop's head, one pass   *)
(* of the sampling loop, or the try block of a round.                      *)
(***************************************************************************)
MaxRounds == 2      \* rounds is 0..MaxRounds

MaxAttempts == 20   \* the sampling loop's bound on count

EcmCall(eng, n, rounds, b1, b2) ==
    [eng |-> eng, n |-> n, rounds |-> rounds, b1 |-> b1, b2 |-> b2]

(* Montgomery, polyeval and Weierstrass calls on small n with every number *)
(* of rounds, and single rounds of a Montgomery call on a prime that       *)
(* carries the round through the whole of Step 2 and of Weierstrass calls, *)
(* b1 a multiple of the wheel, on n whose rounds reach the returns of      *)
(* Step 2.                                                                 *)
EcmCalls ==
    UNION {
        {EcmCall("montgomery", n, r, 14, 30) : n \in {10, 12, 13, 35, 101, 221}}
        \cup {EcmCall("polyeval", n, r, 14, 30) : n \in {10, 12, 35, 103, 18643}}
        \cup {EcmCall("weierstrass", n, r, 210, 211) : n \in {35, 44521}}
        : r \in 0..MaxRounds}
    \cup {EcmCall("montgomery", 55609, 1, 4620, 4700)}
    \cup {EcmCall("weierstrass", n, 1, 210, 211) : n \in {1350901, 5419679}}

(* what random.randint returns in one sampling attempt: <<sigma>> with     *)
(* 6 <= sigma <= n - 6, or <<x0, y0, a>> with values of 1..n-1             *)
Draws(call) ==
    IF call.eng = "weierstrass"
    THEN {<<1, 1, 1>>, <<1, 1, 2>>, <<1, 2, 2>>, <<2, 1, 1>>, <<3, 3, 2>>}
    ELSE {<<sigma>> : sigma \in {s \in {6, 7, 8} : s <= call.n - 6}}

(* the guard of the sampling loop: "while not success and count < 20" *)
sampling_continues_mutant(count) == count < MaxAttempts - 1

sampling_continues(count) == count < MaxAttempts

EcmReturn(val, site) == StageReturn(val, site)

(* the values that may reach line 200 of the polyeval engine: an           *)
(* InverseNotFound(x, n) raised on the way, x not invertible, or the       *)
(* leaves of the remainder tree                                            *)
Residues(n) == {1, n - 1} \cup {d \in 2..(n - 1) : n % d = 0}

PolyevalInputs(n) ==
    {[x |-> x, leaves |-> <<>>] : x \in {0} \cup (Residues(n) \ {1, n - 1})}
    \cup {[x |-> NoneInt, leaves |-> <<rem_leaf(a), rem_leaf(b)>>] :
             a \in Residues(n) \cup {0}, b \in Residues(n)}

InitEcm ==
    /\ HarnessIdle
    /\ DriverIdle
    /\ SieveIdle
    /\ e_pc = "entry"
    /\ e_call \in EcmCalls
    /\ e_round = 0 /\ e_count = 0 /\ e_draw = <<>>
    /\ e_pt = <<>> /\ e_curve = <<>> /\ e_exc = NoOutcome /\ e_ret = NoOutcome

(* "assert n >= 12" of the Montgomery and polyeval engines *)
EcmEnter ==
    /\ e_pc = "entry"
    /\ IF e_call.eng # "weierstrass" /\ e_call.n < 12
       THEN e_pc' = "done" /\ e_exc' = AssertionError /\ e_ret' = StageRaise(AssertionError)
       ELSE e_pc' = "for" /\ UNCHANGED <<e_exc, e_ret>>
    /\ UNCHANGED <<e_call, e_round, e_count, e_draw, e_pt, e_curve, hvars, dvars, svars>>

(* "for round_i in range(rounds)": the next round starts, count = 0 *)
EcmFor ==
    /\ e_pc = "for"
    /\ e_round < e_call.rounds
    /\ e_pc' = "sample"
    /\ e_count' = 0
    /\ UNCHANGED <<e_call, e_round, e_draw, e_pt, e_curve, e_exc, e_ret, hvars, dvars, svars>>

(* the for loop is over: "return None" at the end of ecm *)
EcmReturnNone ==
    /\ e_pc = "for"
    /\ e_round = e_call.rounds
    /\ e_pc' = "done"
    /\ e_ret' = EcmReturn(NoneInt, "end")
    /\ UNCHANGED <<e_call, e_round, e_count, e_draw, e_pt, e_curve, e_exc, hvars, dvars, svars>>

(* One pass of the sampling loop of the Montgomery and polyeval engines,   *)
(* src/ecm_montgomery.py lines 261-272: the draw, get_curve_suyama, and    *)
(* the two except clauses.  Another exception is not caught.               *)
MntSample ==
    /\ e_pc = "sample"
    /\ e_call.eng # "weierstrass"
    /\ sampling_continues(e_count)
    /\ \E d \in Draws(e_call) :
          LET Sampled(g, res) ==
              /\ e_draw' = d
              /\ e_count' = e_count + 1
              /\ e_exc' = IF g.kind = "return" THEN NoOutcome ELSE g
              /\ IF g.kind = "return"
                 THEN /\ e_pc' = "stages"
                      /\ e_pt' = g.val[1]
                      /\ e_curve' = g.val[2]
                      /\ e_ret' = e_ret
                 ELSE IF g.kind = "InverseNotFound" /\ is_factor(res, e_call.n)
                 THEN /\ e_pc' = "done"
                      /\ e_ret' = EcmReturn(res, "sampling")
                      /\ UNCHANGED <<e_pt, e_curve>>
                 ELSE IF g.kind \in {"InverseNotFound", "CurveInitFail"}
                 THEN UNCHANGED <<e_pc, e_pt, e_curve, e_ret>>
                 ELSE /\ e_pc' = "done"
                      /\ e_ret' = StageRaise(g)
                      /\ UNCHANGED <<e_pt, e_curve>>
              from_curve(g) == Sampled(g, gcd(g.x, e_call.n))
          IN  from_curve(get_curve_suyama(d[1], e_call.n))
    /\ UNCHANGED <<e_call, e_round, hvars, dvars, svars>>

(* One pass of the sampling loop of ecm_weierstrass.py, lines 255-262, and *)
(* once delta is not 0 the lines after the loop, 266-267.                  *)
WstSample ==
    /\ e_pc = "sample"
    /\ e_call.eng = "weierstrass"
    /\ sampling_continues(e_count)
    /\ \E d \in Draws(e_call) :
          LET Sampled(pt, curve, delta) ==
              /\ e_draw' = d
              /\ e_count' = e_count + 1
              /\ e_pt' = pt
              /\ e_curve' = curve
              /\ IF delta = 0 THEN UNCHANGED <<e_pc, e_ret>>
                 ELSE IF is_factor(delta, e_call.n)
                 THEN e_pc' = "done" /\ e_ret' = EcmReturn(delta, "sampling")
                 ELSE e_pc' = "stages" /\ e_ret' = e_ret
              from_curve(curve) == Sampled(<<d[1], d[2]>>, curve, get_delta(curve))
          IN  from_curve(get_curve(<<d[1], d[2]>>, d[3], e_call.n))
    /\ UNCHANGED <<e_call, e_round, e_exc, hvars, dvars, svars>>

(* The sampling loop gave up: " - Curve Init Failed.", break, and the      *)
(* "return None" after the for loop.                                       *)
EcmSampleExhausted ==
    /\ e_pc = "sample"
    /\ ~sampling_continues(e_count)
    /\ e_pc' = "done"
    /\ e_ret' = EcmReturn(NoneInt, "break")
    /\ UNCHANGED <<e_call, e_round, e_count, e_draw, e_pt, e_curve, e_exc, hvars, dvars, svars>>

(* How the try block of a round ends: a return inside it, the except       *)
(* clause for InverseNotFound, the fall through to the next round, or an   *)
(* exception no clause catches.                                            *)
RoundEnds(out) ==
    LET res == gcd(out.x, e_call.n) IN
    /\ e_exc' = IF out.kind \in {"return", "end"} THEN NoOutcome
                ELSE [kind |-> out.kind, val |-> 0, x |-> out.x, n |-> out.n]
    /\ IF out.kind = "return"
       THEN e_pc' = "done" /\ e_ret' = out /\ e_round' = e_round
       ELSE IF out.kind = "InverseNotFound" /\ is_factor(res, e_call.n)
       THEN e_pc' = "done" /\ e_ret' = EcmReturn(res, "recovery") /\ e_round' = e_round
       ELSE IF out.kind \in {"InverseNotFound", "end"}
       THEN e_pc' = "for" /\ e_ret' = e_ret /\ e_round' = e_round + 1
       ELSE e_pc' = "done" /\ e_ret' = out /\ e_round' = e_round
    /\ UNCHANGED <<e_call, e_count, e_draw, e_pt, e_curve, hvars, dvars, svars>>

MntStages ==
    /\ e_pc = "stages"
    /\ e_call.eng = "montgomery"
    /\ RoundEnds(mnt_stages(e_pt, e_curve, e_call.b1, e_call.b2))

WstStages ==
    /\ e_pc = "stages"
    /\ e_call.eng = "weierstrass"
    /\ RoundEnds(wst_stages(e_pt, e_curve, e_call.b1, e_call.b2))

PolyevalStages ==
    /\ e_pc = "stages"
    /\ e_call.eng = "polyeval"
    /\ LET s1 == polyeval_stage1(e_pt, e_curve, e_call.b1) IN
       \E in \in PolyevalInputs(e_call.n) :
          RoundEnds(StageBind(s1, LAMBDA q :
                    IF in.x # NoneInt
                    THEN StageRaise(InverseNotFound(in.x, e_call.n))
                    ELSE polyeval_scan(in.leaves, e_call.n)))

NextEcm ==
    \/ EcmEnter
    \/ EcmFor
    \/ EcmReturnNone
    \/ MntSample
    \/ WstSample
    \/ EcmSampleExhausted
    \/ MntStages
    \/ WstStages
    \/ PolyevalStages

SpecEcm == InitEcm /\ [][NextEcm]_vars

(***************************************************************************)
(* Claims about ecm, checked under SpecEcm.                                *)
(***************************************************************************)
EcmReturned == e_pc = "done" /\ e_ret.kind = "return"

EcmReturnedNone == EcmReturned /\ e_ret.val = NoneInt

(* the round's try block ended in an InverseNotFound whose gcd with n is   *)
(* 1 or n: what the step out of "stages" leaves in e_exc                   *)
TrivialInverseNotFound(exc) ==
    /\ exc.kind = "InverseNotFound"
    /\ gcd(exc.x, e_call.n) \in {1, e_call.n}

(* C4: every value ecm returns for n >= 12 is None or an integer d with    *)
(* 1 < d < n that divides n, at every return site of every engine: the     *)
(* sampling loop, the gcds of Step 2 (jq, accumulated, cq_y, per_term),    *)
(* the InverseNotFound recovery, the break and the end of the for loop.    *)
C4_ReturnsNoneOrFactor ==
    (EcmReturned /\ e_call.n >= 12)
        => \/ e_ret.val = NoneInt
           \/ /\ 1 < e_ret.val
              /\ e_ret.val < e_call.n
              /\ e_call.n % e_ret.val = 0

(* a factor returned by the per-term fallback of Step 2 *)
C4_Witness ==
    /\ EcmReturned
    /\ e_call.n >= 12
    /\ e_ret.site = "per_term"
    /\ e_call.eng = "weierstrass"
    /\ e_ret.val # NoneInt

(* C5 as stated: ecm returns None only after all rounds were tried, and a  *)
(* round that fails, by its sampling loop exhausting the 20 attempts or by *)
(* an InverseNotFound whose gcd with n is 1 or n, is followed by the next  *)
(* seed.                                                                   *)
C5_Original ==
    /\ [](EcmReturnedNone => e_round = e_call.rounds)
    /\ [][(e_pc = "sample" /\ e_count = MaxAttempts)
             => (e_pc' = "for" /\ e_round' = e_round + 1)]_vars
    /\ [][(e_pc = "stages" /\ TrivialInverseNotFound(e_exc'))
             => (e_pc' = "for" /\ e_round' = e_round + 1 /\ e_ret' = e_ret)]_vars

(* C5, amended: ecm returns None only after all rounds were tried or after *)
(* a sampling loop exhausted its 20 attempts; a round that fails with an   *)
(* InverseNotFound whose gcd with n is 1 or n is followed by the next      *)
(* seed, with nothing returned or raised, and a round whose sampling loop  *)
(* exhausts its 20 attempts ends the call at once with None.               *)
C5_Amended ==
    /\ [](EcmReturnedNone
            => \/ e_round = e_call.rounds
               \/ e_ret.site = "break" /\ e_count = MaxAttempts)
    /\ [][(e_pc = "stages" /\ TrivialInverseNotFound(e_exc'))
             => (e_pc' = "for" /\ e_round' = e_round + 1 /\ e_ret' = e_ret)]_vars
    /\ [][(e_pc = "sample" /\ e_count = MaxAttempts)
             => (e_pc' = "done" /\ e_ret' = EcmReturn(NoneInt, "break")
                 /\ e_round' = e_round)]_vars

(* every round of a call failed with an InverseNotFound whose gcd with n   *)
(* is n, each was followed by the next seed, and None came at the end      *)
C5_Witness ==
    /\ EcmReturnedNone
    /\ e_ret.site = "end"
    /\ e_call.rounds = MaxRounds
    /\ e_round = e_call.rounds
    /\ TrivialInverseNotFound(e_exc)

(***************************************************************************)
(* mul_pt_multi of src/wheel_sieve/ecm/ecm_weierstrass.py: the generators  *)
(* add_pt_gen and mul_pt_gen, and the loop that inverts the denominators   *)
(* of all the generators with one inv_multi per pass.                      *)
(***************************************************************************)
MaxK == 7           \* the multipliers of mul_pt_multi are -2..MaxK

MaxKs == 2          \* and come in lists of 1..MaxKs

(* add_pt_gen, lines 100-113: what the first yield gives, None when no     *)
(* inversion is required                                                   *)
add_pt_gen_req(pt1, pt2, curve) ==
    IF pt1 = NonePt \/ pt2 = NonePt THEN NoneInt
    ELSE IF pt1 = pt2 THEN Mul(2, pt1[2], curve[3])
    ELSE (pt2[1] - pt1[1]) % curve[3]

(* add_pt_gen, lines 100-116: what the second yield gives after res was sent *)
add_pt_gen_yield_mutant(pt1, pt2, curve, res) ==
    LET n == curve[3]
        from_xr(s, xr) == <<xr, (Mul(s, pt1[1] - xr, n) - pt1[2]) % n>>
        from_s(s) == from_xr(s, (Mul(s, s, n) - (pt1[1] % n) - (pt2[1] % n)) % n)
    IN  IF pt1 = NonePt THEN pt1
        ELSE IF pt2 = NonePt THEN pt1
        ELSE IF pt1 = pt2
        THEN from_s(Mul(Mul(3, Mul(pt1[1], pt1[1], n), n) + curve[1], res, n))
        ELSE from_s(Mul(pt2[2] - pt1[2], res, n))

add_pt_gen_yield(pt1, pt2, curve, res) ==
    LET n == curve[3]
        from_xr(s, xr) == <<xr, (Mul(s, pt1[1] - xr, n) - pt1[2]) % n>>
        from_s(s) == from_xr(s, (Mul(s, s, n) - (pt1[1] % n) - (pt2[1] % n)) % n)
    IN  IF pt1 = NonePt THEN pt2
        ELSE IF pt2 = NonePt THEN pt1
        ELSE IF pt1 = pt2
        THEN from_s(Mul(Mul(3, Mul(pt1[1], pt1[1], n), n) + curve[1], res, n))
        ELSE from_s(Mul(pt2[2] - pt1[2], res, n))

(* mul_pt_gen, lines 164-167: the generator before its first send.  A      *)
(* generator is res, point, k, the line it stands at ("add", line 169;     *)
(* "dbl", line 178; "end", line 186) and req, what it yielded last.        *)
mul_pt_gen(point, curve, k) ==
    [res |-> NonePt, point |-> IF k < 0 THEN neg_pt(point, curve) ELSE point,
     k |-> Abs(k), at |-> "add", req |-> NoneInt]

(* mul_pt_gen, lines 168-185: from a line of the loop to the next yield *)
RECURSIVE mul_pt_gen_run(_, _)
mul_pt_gen_run(g, curve) ==
    LET add_or_yield(req) ==
            IF req # NoneInt THEN [g EXCEPT !.req = req]
            ELSE mul_pt_gen_run(
                    [g EXCEPT !.res = add_pt_gen_yield(g.res, g.point, curve, NoneInt),
                              !.k = g.k \div 2, !.at = "dbl"], curve)
        dbl_or_yield(req) ==
            IF req # NoneInt THEN [g EXCEPT !.req = req]
            ELSE mul_pt_gen_run(
                    [g EXCEPT !.point = add_pt_gen_yield(g.point, g.point, curve, NoneInt),
                              !.at = "add"], curve)
    IN  IF g.at = "add"
        THEN IF g.k < 1 THEN [g EXCEPT !.at = "end", !.req = NoneInt]
             ELSE IF g.k % 2 = 1 THEN add_or_yield(add_pt_gen_req(g.res, g.point, curve))
             ELSE mul_pt_gen_run([g EXCEPT !.k = g.k \div 2, !.at = "dbl"], curve)
        ELSE dbl_or_yield(add_pt_gen_req(g.point, g.point, curve))

(* gen.send(inv_res) to a generator that stands at a yield of a denominator *)
mul_pt_gen_send(g, curve, inv_res) ==
    IF g.at = "add"
    THEN mul_pt_gen_run([g EXCEPT !.res = add_pt_gen_yield(g.res, g.point, curve, inv_res),
                                  !.k = g.k \div 2, !.at = "dbl"], curve)
    ELSE mul_pt_gen_run([g EXCEPT !.point = add_pt_gen_yield(g.point, g.point, curve, inv_res),
                                  !.at = "add"], curve)

(* list(denom_set): the distinct denominators the generators wait for *)
RECURSIVE denom_list_of(_)
denom_list_of(denom_set) ==
    IF denom_set = {} THEN <<>>
    ELSE LET least == CHOOSE d \in denom_set : \A e \in denom_set : d <= e
         IN  <<least>> \o denom_list_of(denom_set \ {least})

working_set_mutant(gens) == {i \in DOMAIN gens : gens[i].req # NoneInt /\ i = 1}

working_set(gens) == {i \in DOMAIN gens : gens[i].req # NoneInt}

(* lines 217-224 for one i of working_set: one send, and a second one when *)
(* the next denominator is in denom_inv_dict already                       *)
send_inverses(g, curve, denom_inv_dict) ==
    LET again(g1) == IF g1.req # NoneInt /\ DictHas(denom_inv_dict, g1.req)
                     THEN mul_pt_gen_send(g1, curve, DictGet(denom_inv_dict, g1.req))
                     ELSE g1
    IN  again(mul_pt_gen_send(g, curve, DictGet(denom_inv_dict, g.req)))

MultiRunning(gens) == [kind |-> "running", val |-> gens, x |-> 0, n |-> 0]

(* the points of the curves the calls are made on, and the lists k_ls *)
MultiCurves ==
    {[pt |-> <<x0, y0>>, curve |-> get_curve(<<x0, y0>>, a, n)] :
        x0 \in 0..2, y0 \in 1..2, a \in 1..2, n \in {15, 35}}

MultiLists == UNION {[1..len -> (0 - 2)..MaxK] : len \in 1..MaxKs}

InitMulPtMulti ==
    /\ DriverIdle
    /\ EcmIdle
    /\ SieveIdle
    /\ h_pc = "call"
    /\ h_ret = NoOutcome
    /\ \E c \in MultiCurves : \E k_ls \in MultiLists :
          h_args = [fn |-> "mul_pt_multi", x |-> 0, n |-> c.curve[3], xs |-> k_ls,
                    pt |-> c.pt, curve |-> c.curve]

(* lines 204-213: the generators are made and started *)
MulPtMultiStart ==
    /\ h_pc = "call" /\ h_args.fn = "mul_pt_multi"
    /\ h_pc' = "batch"
    /\ h_ret' = MultiRunning([i \in DOMAIN h_args.xs |->
                     mul_pt_gen_run(mul_pt_gen(h_args.pt, h_args.curve, h_args.xs[i]),
                                    h_args.curve)])
    /\ UNCHANGED <<h_args, dvars, evars, svars>>

(* lines 214-226: one pass of "while working_set" *)
MulPtMultiBatch ==
    /\ h_pc = "batch" /\ working_set(h_ret.val) # {}
    /\ LET gens == h_ret.val
           passed(r) ==
               IF r.kind # "return" THEN h_pc' = "done" /\ h_ret' = r
               ELSE /\ h_pc' = "batch"
                    /\ h_ret' = MultiRunning([i \in DOMAIN gens |->
                                   IF i \in working_set(gens)
                                   THEN send_inverses(gens[i], h_args.curve, r.val)
                                   ELSE gens[i]])
       IN  passed(inv_multi(denom_list_of({gens[i].req : i \in working_set(gens)}),
                            h_args.n))
    /\ UNCHANGED <<h_args, dvars, evars, svars>>

(* line 227: the last send to each generator gives its point *)
MulPtMultiReturn ==
    /\ h_pc = "batch" /\ working_set(h_ret.val) = {}
    /\ h_pc' = "done"
    /\ h_ret' = Returned([i \in DOMAIN h_ret.val |-> h_ret.val[i].res])
    /\ UNCHANGED <<h_args, dvars, evars, svars>>

NextMulPtMulti == MulPtMultiStart \/ MulPtMultiBatch \/ MulPtMultiReturn

SpecMulPtMulti == InitMulPtMulti /\ [][NextMulPtMulti]_vars

(* [mul_pt_exn(P, curve, k) for k in ks]: the list, or the first exception *)
SerialMul(pt, curve, ks) ==
    LET rs == [i \in DOMAIN ks |-> wst_mul_pt_exn(pt, curve, ks[i])]
        failed == {i \in DOMAIN ks : rs[i].kind # "return"}
    IN  IF failed = {} THEN Returned([i \in DOMAIN ks |-> rs[i].val])
        ELSE rs[CHOOSE i \in failed : \A j \in failed : i <= j]

MultiDone == h_pc = "done" /\ h_args.fn = "mul_pt_multi"

(* C11: when every serial mul_pt_exn(P, curve, k) succeeds, mul_pt_multi   *)
(* returns the list of their results, element-wise and in the order of ks  *)
C11_MultiEqualsSerial ==
    (MultiDone /\ SerialMul(h_args.pt, h_args.curve, h_args.xs).kind = "return")
        => h_ret = SerialMul(h_args.pt, h_args.curve, h_args.xs)

(* a list with a negative, a zero or a repeated multiplier, of two batches *)
(* or more, went through                                                   *)
C11_Witness ==
    /\ MultiDone
    /\ h_ret.kind = "return"
    /\ Len(h_args.xs) = 2
    /\ h_args.xs[1] < 0 /\ h_args.xs[2] > 4
    /\ h_ret.val[1] # NonePt /\ h_ret.val[2] # NonePt

(* the serial evaluation raises InverseNotFound with a non-trivial gcd *)
SerialFindsFactor ==
    LET from_serial(r) == r.kind = "InverseNotFound" /\ is_factor(gcd(r.x, h_args.n), h_args.n)
    IN  from_serial(SerialMul(h_args.pt, h_args.curve, h_args.xs))

(* C12 as stated: on n = p * q, when the serial evaluation raises          *)
(* InverseNotFound with a non-trivial gcd, mul_pt_multi raises             *)
(* InverseNotFound with an x whose gcd with n is p or q                    *)
C12_Original ==
    (MultiDone /\ SerialFindsFactor)
        => /\ h_ret.kind = "InverseNotFound"
           /\ is_factor(gcd(h_ret.x, h_args.n), h_args.n)

(* C12, amended: mul_pt_multi raises InverseNotFound too, with the product *)
(* of the denominators of one pass as x: gcd(x, n) is p, q or n            *)
C12_Amended ==
    (MultiDone /\ SerialFindsFactor)
        => /\ h_ret.kind = "InverseNotFound"
           /\ gcd(h_ret.x, h_args.n) > 1
           /\ h_args.n % gcd(h_ret.x, h_args.n) = 0

(* both kinds of end: the factor kept, and the factor lost to gcd = n *)
C12_Witness ==
    /\ MultiDone /\ SerialFindsFactor
    /\ h_ret.kind = "InverseNotFound"
    /\ gcd(h_ret.x, h_args.n) = h_args.n

(***************************************************************************)
(* src/wheel_sieve/wheel_sieve_byte.py: the Worker behind PRIME_GEN, with  *)
(* its cache of primes, and wheel_sieve.  The cache is the record          *)
(* [primes, lim, ubound]; a routine that may extend the cache gives the    *)
(* cache it leaves and the list it yielded, [c, out].                      *)
(***************************************************************************)
MEM == 8000000

MaxSieve == 50      \* the bounds passed to the sieve are at most MaxSieve

MaxOps == 3         \* and a run makes at most MaxOps calls

Max(a, b) == IF a >= b THEN a ELSE b

Min(a, b) == IF a <= b THEN a ELSE b

(* int(np.sqrt(x)) *)
isqrt(x) == CHOOSE r \in 0..x : r * r <= x /\ (r + 1) * (r + 1) > x

p_list == <<2, 3, 5>>

sieve_wheel == p_list[1] * p_list[2] * p_list[3]

(* lines 146-150 *)
k_list ==
    SelectSeq([k \in 1..(sieve_wheel - 1) |-> k],
              LAMBDA k : \A i \in DOMAIN p_list : k % p_list[i] # 0)

(* line 158 *)
step_size(mem) == Max(1, mem \div Len(k_list)) * sieve_wheel

(* _wheel_sieve, lines 169-190: the cells <<row, column>> of c_array that  *)
(* are still True at the return; sieve_primes is what                      *)
(* PRIME_GEN(int(np.sqrt(ubound)) + 1) yielded.  A negative start of a     *)
(* slice counts from the end of the array, as numpy has it.                *)
c_array(lbound, ubound, sieve_primes) ==
    LET am == lbound \div sieve_wheel
        bm == (ubound - 2) \div sieve_wheel + 1
        rows == bm - am
        cleared(r, i) ==
            \/ r = 0 /\ (am * sieve_wheel + k_list[i] < lbound
                         \/ am * sieve_wheel + k_list[i] = 1)
            \/ r = rows - 1 /\ (bm - 1) * sieve_wheel + k_list[i] >= ubound
        km(prime) == Max(prime \div sieve_wheel, am \div prime)
        nm0(prime, k) == prime * km(prime) + (prime * k) \div sieve_wheel - am
        nm(prime, k) == IF nm0(prime, k) < 0 \/ (km(prime) = 0 /\ k = 1)
                        THEN nm0(prime, k) + prime ELSE nm0(prime, k)
        start(prime, k) == IF nm(prime, k) < 0 THEN Max(rows + nm(prime, k), 0)
                           ELSE nm(prime, k)
        idx(prime, k) == CHOOSE i \in DOMAIN k_list :
                            k_list[i] = ((prime % sieve_wheel) * k) % sieve_wheel
        sieved(r, i) ==
            \E j \in DOMAIN sieve_primes : \E t \in DOMAIN k_list :
                /\ sieve_wheel % sieve_primes[j] # 0
                /\ idx(sieve_primes[j], k_list[t]) = i
                /\ r >= start(sieve_primes[j], k_list[t])
                /\ (r - start(sieve_primes[j], k_list[t])) % sieve_primes[j] = 0
    IN  {cell \in (0..(rows - 1)) \X DOMAIN k_list :
            ~cleared(cell[1], cell[2]) /\ ~sieved(cell[1], cell[2])}

(* lines 164-165: the numbers of the True cells, row by row *)
sieve_yield(prev, res) ==
    LET rows == IF res = {} THEN 0
                ELSE 1 + CHOOSE r \in {cell[1] : cell \in res} :
                             \A cell \in res : cell[1] <= r
        cells == [j \in 1..(rows * Len(k_list)) |->
                     <<(j - 1) \div Len(k_list), ((j - 1) % Len(k_list)) + 1>>]
        kept == SelectSeq(cells, LAMBDA cell : cell \in res)
    IN  [j \in DOMAIN kept |->
            (prev \div sieve_wheel + kept[j][1]) * sieve_wheel + k_list[kept[j][2]]]

Cache(primes, lim, ubound) == [primes |-> primes, lim |-> lim, ubound |-> ubound]

(* Worker.set_n, lines 19-26 *)
set_n_mutant(c, ubound) == [c EXCEPT !.ubound = ubound]

set_n(c, ubound) ==
    IF c.ubound = NoneInt \/ ubound > c.ubound THEN [c EXCEPT !.ubound = ubound] ELSE c

(* the primes[i] of Worker.__call__ that are below ubound, from index i on *)
(* (counted from 0), up to the first that is not or to the end of the list *)
cached_below(primes, i, ubound) ==
    LET stop == CHOOSE j \in (i + 1)..(Len(primes) + 1) :
                    /\ j = Len(primes) + 1 \/ primes[j] >= ubound
                    /\ \A t \in (i + 1)..(j - 1) : primes[t] < ubound
    IN  SubSeq(primes, i + 1, stop - 1)

RECURSIVE worker_from(_, _, _, _)
RECURSIVE gen(_, _)
RECURSIVE wheel_sieve(_, _, _, _, _)
RECURSIVE sieve_partitions(_, _, _, _, _, _)

(* Worker.__call__, lines 50-58, iterated to its end from index i *)
worker_from(c, ubound, i, mem) ==
    LET from_rest(out, r) == [c |-> r.c, out |-> out \o r.out]
        from_cache(c2, out) ==
            IF i + Len(out) < Len(c2.primes) \/ out = <<>>
            THEN [c |-> c2, out |-> out]
            ELSE from_rest(out, worker_from(c2, ubound, Len(c2.primes), mem))
        after_gen(c2) == from_cache(c2, cached_below(c2.primes, i, ubound))
    IN  after_gen(IF i >= Len(c.primes) THEN gen(c, mem) ELSE c)

(* PRIME_GEN(ubound), iterated to its end *)
worker_call(c, ubound, mem) == worker_from(set_n(c, ubound), ubound, 0, mem)

(* Worker.gen, lines 31-38: the primes wheel_sieve yields are appended as  *)
(* they come                                                               *)
gen_mutant(c, mem) ==
    LET new_lim == IF c.ubound # NoneInt
                   THEN Min(c.primes[Len(c.primes)] * c.primes[Len(c.primes)] - 1, c.ubound - 1)
                   ELSE c.primes[Len(c.primes)] * c.primes[Len(c.primes)] - 1
        sieved(r) == [r.c EXCEPT !.lim = new_lim]
    IN  IF new_lim > c.lim THEN sieved(wheel_sieve(c, c.lim, new_lim, mem, TRUE)) ELSE c

gen(c, mem) ==
    LET new_lim == IF c.ubound # NoneInt
                   THEN Min(c.primes[Len(c.primes)] * c.primes[Len(c.primes)] - 1, c.ubound + 1)
                   ELSE c.primes[Len(c.primes)] * c.primes[Len(c.primes)] - 1
        sieved(r) == [r.c EXCEPT !.lim = new_lim]
    IN  IF new_lim > c.lim THEN sieved(wheel_sieve(c, c.lim, new_lim, mem, TRUE)) ELSE c

(* wheel_sieve, lines 159-166: the partitions from prev on; appending says *)
(* that the caller is Worker.gen, which appends what is yielded            *)
sieve_partitions(c, prev, ubound, mem, appending, out) ==
    LET curr == Min(prev + step_size(mem), ubound)
        yielded(c2, ps) ==
            sieve_partitions(IF appending THEN [c2 EXCEPT !.primes = c2.primes \o ps] ELSE c2,
                             curr, ubound, mem, appending, out \o ps)
        sieved(r) == yielded(r.c, sieve_yield(prev, c_array(prev, curr, r.out)))
    IN  IF prev < ubound THEN sieved(worker_call(c, isqrt(curr) + 1, mem))
        ELSE [c |-> c, out |-> out]

(* wheel_sieve(lbound, ubound), lines 139-166, iterated to its end *)
wheel_sieve(c, lbound, ubound, mem, appending) ==
    LET wheel_primes(r) ==
            sieve_partitions(r.c, lbound, ubound, mem, appending,
                             SelectSeq(r.out, LAMBDA prime :
                                 lbound <= prime /\ sieve_wheel % prime = 0))
        from_set_n(c1) ==
            IF lbound <= p_list[Len(p_list)]
            THEN wheel_primes(worker_call(c1, p_list[Len(p_list)] + 1, mem))
            ELSE sieve_partitions(c1, lbound, ubound, mem, appending, <<>>)
    IN  from_set_n(set_n(c, isqrt(ubound) + 1))

(* the bounds the calls are made with *)
SieveBounds == {1, 3, 6, 7, 25, 26, 32, MaxSieve}

TheCache == Cache(w_primes, w_lim, w_ubound)

SieveOp(op, a, b, i, out, done) ==
    [op |-> op, a |-> a, b |-> b, i |-> i, out |-> out, done |-> done]

InitSieve ==
    /\ HarnessIdle
    /\ DriverIdle
    /\ EcmIdle
    /\ w_primes = <<2, 3, 5>> /\ w_lim = 6 /\ w_ubound = NoneInt
    /\ s_mem \in {MEM, Len(k_list)}
    /\ s_op = SieveOp("none", 0, 0, 0, <<>>, TRUE)
    /\ s_ops = 0

SieveLeaves(c) == w_primes' = c.primes /\ w_lim' = c.lim /\ w_ubound' = c.ubound

(* a generator that is not done may be dropped for another call *)
SieveIsFree == s_ops < MaxOps

(* PRIME_GEN.set_n(ubound) *)
SieveSetN ==
    /\ SieveIsFree
    /\ \E ubound \in SieveBounds :
          /\ SieveLeaves(set_n(TheCache, ubound))
          /\ s_op' = SieveOp("set_n", ubound, 0, 0, <<>>, TRUE)
    /\ s_ops' = s_ops + 1
    /\ UNCHANGED <<s_mem, hvars, dvars, evars>>

(* list(wheel_sieve(lbound, ubound)) *)
SieveWheelSieve ==
    /\ SieveIsFree
    /\ \E lbound \in SieveBounds : \E ubound \in SieveBounds :
          LET listed(r) ==
                  /\ SieveLeaves(r.c)
                  /\ s_op' = SieveOp("wheel_sieve", lbound, ubound, 0, r.out, TRUE)
          IN  /\ lbound <= ubound
              /\ listed(wheel_sieve(TheCache, lbound, ubound, s_mem, FALSE))
    /\ s_ops' = s_ops + 1
    /\ UNCHANGED <<s_mem, hvars, dvars, evars>>

(* PRIME_GEN(ubound): the generator is made; nothing runs before the first *)
(* next()                                                                  *)
SievePrimeGen ==
    /\ SieveIsFree
    /\ \E ubound \in SieveBounds :
          s_op' = SieveOp("PRIME_GEN", ubound, 0, 0, <<>>, FALSE)
    /\ s_ops' = s_ops + 1
    /\ UNCHANGED <<w_primes, w_lim, w_ubound, s_mem, hvars, dvars, evars>>

(* next() on the generator: lines 49-58 up to the next yield or the break *)
SieveNext ==
    /\ s_op.op = "PRIME_GEN" /\ ~s_op.done
    /\ LET after_gen(c) ==
               /\ SieveLeaves(c)
               /\ IF s_op.i >= Len(c.primes) \/ c.primes[s_op.i + 1] >= s_op.a
                  THEN s_op' = [s_op EXCEPT !.done = TRUE]
                  ELSE s_op' = [s_op EXCEPT !.i = s_op.i + 1,
                                            !.out = Append(s_op.out, c.primes[s_op.i + 1])]
           after_set_n(c) == after_gen(IF s_op.i >= Len(c.primes) THEN gen(c, s_mem) ELSE c)
       IN  after_set_n(IF s_op.i = 0 /\ s_op.out = <<>> THEN set_n(TheCache, s_op.a)
                       ELSE TheCache)
    /\ UNCHANGED <<s_mem, s_ops, hvars, dvars, evars>>

NextSieve == SieveSetN \/ SieveWheelSieve \/ SievePrimeGen \/ SieveNext

SpecSieve == InitSieve /\ [][NextSieve]_vars

(***************************************************************************)
(* Claims about the sieve, checked under SpecSieve.                        *)
(***************************************************************************)
IsPrefix(xs, ys) == Len(xs) <= Len(ys) /\ xs = SubSeq(ys, 1, Len(xs))

PrimeGenDone == s_op.op = "PRIME_GEN" /\ s_op.done

(* C13: after any earlier PRIME_GEN, set_n and wheel_sieve calls, a        *)
(* PRIME_GEN(u) iterated to its end has yielded exactly the primes p with  *)
(* 2 <= p < u, each once and in ascending order; what it has yielded so    *)
(* far is always a prefix of that list                                     *)
C13_PrimeGenExact ==
    /\ PrimeGenDone => s_op.out = PrimesFrom(2, s_op.a)
    /\ s_op.op = "PRIME_GEN" => IsPrefix(s_op.out, PrimesFrom(2, s_op.a))

(* the third call of a run is a PRIME_GEN(u) that stopped in front of a    *)
(* cached prime >= u, after the cache had been extended                    *)
C13_Witness ==
    /\ PrimeGenDone
    /\ s_ops = MaxOps
    /\ Len(s_op.out) > 3
    /\ Len(s_op.out) < Len(w_primes)
    /\ w_primes[Len(s_op.out) + 1] >= s_op.a

(* C14: the prime list only ever grows by appending, from [2,3,5]; lim and *)
(* the recorded bound never decrease; set_n with a bound not larger than   *)
(* the recorded one changes nothing of the cache                           *)
C14_CacheOnlyGrows ==
    /\ [](IsPrefix(<<2, 3, 5>>, w_primes))
    /\ [][/\ IsPrefix(w_primes, w_primes')
          /\ w_lim' >= w_lim
          /\ w_ubound # NoneInt => w_ubound' >= w_ubound
          /\ (s_ops' # s_ops /\ s_op'.op = "set_n" /\ w_ubound # NoneInt
                /\ s_op'.a <= w_ubound)
                => UNCHANGED <<w_primes, w_lim, w_ubound>>]_vars

(* a set_n with a smaller bound came after the cache had been extended *)
C14_Witness ==
    /\ s_op.op = "set_n"
    /\ s_op.a < w_ubound
    /\ Len(w_primes) > 3
    /\ w_lim > 6

(* C15: for 1 <= a <= b, wheel_sieve(a, b) yields exactly the primes p     *)
(* with a <= p < b, each once and in ascending order                       *)
C15_WheelSieveExact ==
    s_op.op = "wheel_sieve" => s_op.out = PrimesFrom(s_op.a, s_op.b)

(* C15 on the ranges that end above the wheel primes: there the sieve is   *)
(* exact, whether the range starts at or below 2, 3, 5, ends inside a      *)
(* wheel period, or is split into partitions                               *)
C15_ExactAboveWheel ==
    (s_op.op = "wheel_sieve" /\ s_op.b > p_list[Len(p_list)])
        => s_op.out = PrimesFrom(s_op.a, s_op.b)

C15_Witness ==
    /\ s_op.op = "wheel_sieve"
    /\ s_op.a <= 2 /\ s_op.b = MaxSieve
    /\ step_size(s_mem) < s_op.b - s_op.a
    /\ Len(s_op.out) > 10

(***************************************************************************)
(* miller_rabin(n, witness_prime(30)): the test with the first ten primes  *)
(* as witnesses, on every n from -MaxNeg to MaxMR and on the composites    *)
(* below MaxRoot^2 that the test with the single witness 2 accepts.        *)
(***************************************************************************)
MaxMR == 2100       \* every n up to MaxMR is tested

MaxRoot == 1000     \* the tested numbers are below MaxRoot^2

FirstTenPrimes == witness_prime(30)

(* the strong pseudoprimes to base 2 below 10^6 *)
StrongPseudoprimes2 ==
    {2047, 3277, 4033, 4681, 8321, 15841, 29341, 42799, 49141, 52633, 65281,
     74665, 80581, 85489, 88357, 90751, 104653, 130561, 196093, 220729,
     233017, 252601, 253241, 256999, 271951, 280601, 314821, 357761, 390937,
     458989, 476971, 486737, 489997, 514447, 580337, 635401, 647089, 741751,
     800605, 818201, 838861, 873181, 877099, 916327, 976873, 983401}

MRInputs ==
    ((-MaxNeg)..MaxMR) \cup {n \in StrongPseudoprimes2 \cup {999983, 999999} : n < MaxRoot * MaxRoot}

InitMillerRabin ==
    /\ DriverIdle
    /\ EcmIdle
    /\ SieveIdle
    /\ h_pc = "call"
    /\ h_ret = NoOutcome
    /\ \E n \in MRInputs :
          h_args = [fn |-> "miller_rabin", x |-> 0, n |-> n, xs |-> FirstTenPrimes]

CallMillerRabin ==
    /\ h_pc = "call" /\ h_args.fn = "miller_rabin"
    /\ h_ret' = Returned(miller_rabin(h_args.n, h_args.xs))
    /\ h_pc' = "done"
    /\ UNCHANGED <<h_args, dvars, evars, svars>>

NextMillerRabin == CallMillerRabin

SpecMillerRabin == InitMillerRabin /\ [][NextMillerRabin]_vars

(* trial division up to MaxRoot: primality of the numbers below MaxRoot^2 *)
TrialPrime(n) ==
    n >= 2 /\ \A q \in 2..MaxRoot : q >= n \/ q * q > n \/ n % q # 0

MillerRabinDone == h_pc = "done" /\ h_args.fn = "miller_rabin"

(***************************************************************************)
(* C16: with the first ten primes as witnesses miller_rabin returns True   *)
(* exactly for the primes among the tested numbers: True for 2 and 3,      *)
(* False for every even n > 2 and every n < 2, and a witness outside       *)
(* [2, n - 2] is skipped (else the primes up to 29 would be rejected).     *)
(***************************************************************************)
C16_MillerRabinExact ==
    MillerRabinDone =>
        /\ Len(h_args.xs) = 10
        /\ h_ret = Returned(TrialPrime(h_args.n))
        /\ (h_args.n \in {2, 3} => h_ret.val)
        /\ ((h_args.n < 2 \/ (h_args.n > 2 /\ h_args.n % 2 = 0)) => ~h_ret.val)

(* a composite that the single witness 2 accepts is rejected *)
C16_Witness ==
    /\ MillerRabinDone
    /\ h_args.n \in StrongPseudoprimes2
    /\ miller_rabin(h_args.n, <<2>>)
    /\ h_ret = Returned(FALSE)

(***************************************************************************)
(* Polynomial of src/wheel_sieve/polynomial.py.  A polynomial is its       *)
(* coefficient list, lowest degree first; the modulus n is passed along.   *)
(* Python's integers are unbounded: the packed integers of __mul__ are     *)
(* kept as their little-endian byte strings, and their product is the      *)
(* product of the byte strings with its carries.                           *)
(***************************************************************************)
(* "while len(res) > 1 and res[-1] == 0: res.pop()", lines 55-56 and 73-74 *)
RECURSIVE poly_trim(_)
poly_trim(res) ==
    IF Len(res) > 1 /\ res[Len(res)] = 0
    THEN poly_trim(SubSeq(res, 1, Len(res) - 1))
    ELSE res

(* lines 44-54, before the trailing zeros are popped *)
poly_add_res(f, g, n) ==
    [i \in 1..Max(Len(f), Len(g)) |->
        IF i <= Len(f) /\ i <= Len(g) THEN (f[i] + g[i]) % n
        ELSE IF i <= Len(f) THEN f[i] ELSE g[i]]

poly_add(f, g, n) == poly_trim(poly_add_res(f, g, n))

(* lines 62-72 *)
poly_sub_res(f, g, n) ==
    [i \in 1..Max(Len(f), Len(g)) |->
        IF i <= Len(f) /\ i <= Len(g) THEN (f[i] - g[i]) % n
        ELSE IF i <= Len(f) THEN f[i] ELSE n - g[i]]

poly_sub_mutant(f, g, n) == poly_sub_res(f, g, n)

poly_sub(f, g, n) == poly_trim(poly_sub_res(f, g, n))

(* ai.to_bytes(k_8, byteorder="little") *)
to_bytes(ai, k_8) == [b \in 1..k_8 |-> (ai \div Pow2(8 * (b - 1))) % 256]

(* bytes.join(b"", (ai.to_bytes(k_8, ...) for ai in coeff)), lines 96-98 *)
pack(coeff, k_8) ==
    [j \in 1..(Len(coeff) * k_8) |->
        to_bytes(coeff[(j - 1) \div k_8 + 1], k_8)[((j - 1) % k_8) + 1]]

(* int.from_bytes(bs, byteorder="little") of a slot *)
RECURSIVE from_bytes(_)
from_bytes(bs) == IF bs = <<>> THEN 0 ELSE bs[1] + 256 * from_bytes(Tail(bs))

(* the sum of a[i] * b[j] over the byte positions i + j = m (from 0) *)
RECURSIVE byte_column(_, _, _, _)
byte_column(a, b, m, i) ==
    IF i > m \/ i >= Len(a) THEN 0
    ELSE (IF m - i < Len(b) THEN a[i + 1] * b[m - i + 1] ELSE 0)
         + byte_column(a, b, m, i + 1)

(* one byte of the product t_self * t_other, with the carry into the next *)
big_mul_step(st, a, b) ==
    LET t == st.carry + byte_column(a, b, Len(st.bytes), 0) IN
    [bytes |-> Append(st.bytes, t % 256), carry |-> t \div 256]

(* t_res = t_self * t_other, line 108, as Len(a) + Len(b) bytes *)
big_mul(a, b) ==
    Iterate(LAMBDA st : big_mul_step(st, a, b), [bytes |-> <<>>, carry |-> 0],
            Len(a) + Len(b)).bytes

(* t_res.to_bytes((t_res.bit_length() - 1) // 8 + 1, ...): no byte for 0, *)
(* else up to the highest non-zero byte; line 110                        *)
res_bytes(bs) ==
    LET used == {i \in DOMAIN bs : bs[i] # 0} IN
    IF used = {} THEN <<>>
    ELSE SubSeq(bs, 1, CHOOSE i \in used : \A j \in used : j <= i)

(* lines 92-94: the slot width in bytes *)
slot_bytes_mutant(d, n) == (bit_length(n) - 1) \div 8 + 1

slot_bytes(d, n) == (bit_length(d * n * n + 1) - 1) \div 8 + 1

(* lines 111-114: one coefficient from each k_8 bytes of the product *)
unpack(bt_res, k_8, n) ==
    [s \in 1..((Len(bt_res) + k_8 - 1) \div k_8) |->
        from_bytes(SubSeq(bt_res, (s - 1) * k_8 + 1, Min(s * k_8, Len(bt_res)))) % n]

(* lines 95-114: the operands packed into slots of k_8 bytes, multiplied *)
(* as integers and unpacked                                             *)
mul_packed(f, g, n, k_8) ==
    LET with_self(t_self) ==
            unpack(res_bytes(big_mul(t_self, IF f = g THEN t_self ELSE pack(g, k_8))),
                   k_8, n)
    IN  with_self(pack(f, k_8))

(* Polynomial.__mul__, lines 89-114 *)
poly_mul(f, g, n) == mul_packed(f, g, n, slot_bytes(Max(Len(f), Len(g)), n))

(* src/polynomial.py, lines 91-95: k starts at 8 bits and doubles while *)
(* the shifted target is positive                                       *)
RECURSIVE legacy_slot_bits(_, _)
legacy_slot_bits(target, k) ==
    IF target > 0 THEN legacy_slot_bits(target \div Pow2(k), k * 2) ELSE k

(* Polynomial.__mul__ of src/polynomial.py, lines 87-108: shifts by k bits *)
(* and the mask 2^k - 1 are slots of k / 8 bytes                           *)
legacy_mul(f, g, n) ==
    mul_packed(f, g, n,
               legacy_slot_bits((Max(Len(f), Len(g)) * n * n + 1) \div Pow2(8), 8) \div 8)

(* coeff[i] with Python's indexing: a negative i counts from the end *)
py_index(coeff, i) == IF i < 0 THEN coeff[Len(coeff) + i + 1] ELSE coeff[i + 1]

(* coeff[d:], __getitem__ with the slice d: *)
slice_from(coeff, d) == SubSeq(coeff, d + 1, Len(coeff))

(* lines 197-218: one pass of the while loop of recip; st holds R_curr,  *)
(* e_curr and k                                                          *)
recip_step(st, coeff, inv_fn, n) ==
    LET d == Len(coeff) - 1
        k == st.k
        with_H(H) ==
            [R |-> [j1 \in 1..k |->
                       ((IF j1 <= k \div 2 THEN 0 ELSE 2 * st.R[j1 - k \div 2])
                        - H[j1 + k - 2]) % n],
             e |-> IF k = 2
                   THEN (st.e * st.e - py_index(coeff, d - k) * inv_fn) % n
                   ELSE IF k <= d
                   THEN (st.e * st.e - H[k - 2] * coeff[d + 1]
                         - py_index(coeff, d - k) * inv_fn) % n
                   ELSE st.e,
             k |-> k * 2]
    IN  with_H(poly_mul(poly_mul(st.R, st.R, n),
                        [j1 \in 1..k |-> py_index(coeff, d - k + j1)], n))

RECURSIVE recip_loop(_, _, _, _)
recip_loop(st, coeff, inv_fn, n) ==
    IF st.k < (Len(coeff) - 1) * 2
    THEN recip_loop(recip_step(st, coeff, inv_fn, n), coeff, inv_fn, n)
    ELSE st

(* "res.coeff = res.coeff[-d - 1 :]", line 222 *)
last_coeffs_mutant(res, d) == res

last_coeffs(res, d) == SubSeq(res, Max(1, Len(res) - d), Len(res))

(* Polynomial.recip, lines 191-223: the coefficient list of the result, or *)
(* the InverseNotFound of inv                                              *)
poly_recip(coeff, n) ==
    LET d == Len(coeff) - 1
        from_inv(inv_fn) ==
            LET after(st) ==
                    Returned(last_coeffs(IF st.k = d * 2
                                         THEN <<(st.e * inv_fn) % n>> \o st.R
                                         ELSE st.R, d))
            IN  after(recip_loop([R |-> <<inv_fn>>,
                                  e |-> (-py_index(coeff, d - 1) * inv_fn) % n,
                                  k |-> 2], coeff, inv_fn, n))
    IN  Bind(inv(py_index(coeff, d), n), from_inv)

(* lines 140-148: the passes of the while loop of __divmod__; a pass that *)
(* does not end the loop after fuel passes is reported as "running"       *)
RECURSIVE divmod_loop(_, _, _, _, _, _)
divmod_loop(dividend, poly_quo, other, other_recip, n, fuel) ==
    LET d == Len(other) - 1
        with_quo(quo) ==
            LET with_rem(rem, quo_sum) ==
                    IF Len(rem) < Len(other) \/ (Len(rem) = 1 /\ rem[1] = 0)
                    THEN Returned(<<quo_sum, rem>>)
                    ELSE IF fuel = 0
                    THEN [kind |-> "running", val |-> <<quo_sum, rem>>, x |-> 0, n |-> 0]
                    ELSE divmod_loop(rem, quo_sum, other, other_recip, n, fuel - 1)
            IN  with_rem(poly_sub(dividend, poly_mul(quo, other, n), n),
                         poly_add(poly_quo, quo, n))
    IN  with_quo(slice_from(poly_mul(slice_from(dividend, d), other_recip, n), d))

(* Polynomial.__divmod__, lines 127-150: <<quotient, remainder>> *)
poly_divmod(f, g, n) ==
    IF Len(f) < Len(g) THEN Returned(<<(<<0>>), f>>)
    ELSE LET from_recip(other_recip) ==
                 divmod_loop(f, <<0>>, g, other_recip, n, Len(f))
         IN  Bind(poly_recip(g, n), from_recip)

(***************************************************************************)
(* The polynomial harness: one operator applied to operands with trimmed   *)
(* coefficient lists reduced to [0, n).                                    *)
(***************************************************************************)
MaxPolyLen == 2     \* both operands of +, -, *, divmod have up to MaxPolyLen coefficients

MaxDeg == 5         \* recip up to degree MaxDeg, dividends below degree MaxDeg

PolyModuli == {2, 3, 4}

WideModulus == 16   \* d * n^2 + 1 needs more than 8 bits: slots of two bytes

PolyCoeffs(n) == IF n = WideModulus THEN {0, 1, n \div 2, n - 1} ELSE 0..(n - 1)

Polys(n, max_len) ==
    {<<0>>} \cup UNION {{c \in [1..len -> PolyCoeffs(n)] : c[len] # 0} : len \in 1..max_len}

PolyCall(fn, n, f, g) == [fn |-> fn, n |-> n, f |-> f, g |-> g]

InitPoly ==
    /\ DriverIdle
    /\ EcmIdle
    /\ SieveIdle
    /\ h_pc = "call"
    /\ h_args = <<>>
    /\ h_ret = NoOutcome

PolyAdd ==
    /\ h_pc = "call"
    /\ \E n \in PolyModuli : \E f, g \in Polys(n, MaxPolyLen) :
          /\ h_args' = PolyCall("add", n, f, g)
          /\ h_ret' = Returned(poly_add(f, g, n))
    /\ h_pc' = "done"
    /\ UNCHANGED <<dvars, evars, svars>>

PolySub ==
    /\ h_pc = "call"
    /\ \E n \in PolyModuli : \E f, g \in Polys(n, MaxPolyLen) :
          /\ h_args' = PolyCall("sub", n, f, g)
          /\ h_ret' = Returned(poly_sub(f, g, n))
    /\ h_pc' = "done"
    /\ UNCHANGED <<dvars, evars, svars>>

PolyMul ==
    /\ h_pc = "call"
    /\ \E n \in PolyModuli \cup {WideModulus} : \E f, g \in Polys(n, MaxPolyLen) :
          /\ h_args' = PolyCall("mul", n, f, g)
          /\ h_ret' = Returned(poly_mul(f, g, n))
    /\ h_pc' = "done"
    /\ UNCHANGED <<dvars, evars, svars>>

PolyMulLegacy ==
    /\ h_pc = "call"
    /\ \E n \in PolyModuli \cup {WideModulus} : \E f, g \in Polys(n, MaxPolyLen) :
          /\ h_args' = PolyCall("legacy_mul", n, f, g)
          /\ h_ret' = Returned(legacy_mul(f, g, n))
    /\ h_pc' = "done"
    /\ UNCHANGED <<dvars, evars, svars>>

PolyDivmod ==
    /\ h_pc = "call"
    /\ \E n \in PolyModuli : \E g \in Polys(n, MaxPolyLen) :
       \E f \in Polys(n, IF n = 4 THEN MaxPolyLen ELSE MaxDeg) :
          /\ h_args' = PolyCall("divmod", n, f, g)
          /\ h_ret' = poly_divmod(f, g, n)
    /\ h_pc' = "done"
    /\ UNCHANGED <<dvars, evars, svars>>

PolyRecip ==
    /\ h_pc = "call"
    /\ \E n \in PolyModuli : \E f \in Polys(n, MaxDeg + 1) :
          /\ h_args' = PolyCall("recip", n, f, <<0>>)
          /\ h_ret' = poly_recip(f, n)
    /\ h_pc' = "done"
    /\ UNCHANGED <<dvars, evars, svars>>

NextPoly == PolyAdd \/ PolySub \/ PolyMul \/ PolyMulLegacy \/ PolyDivmod \/ PolyRecip

SpecPoly == InitPoly /\ [][NextPoly]_vars

PolyDone(fn) == h_pc = "done" /\ h_args # <<>> /\ h_args.fn = fn

(* a coefficient list as the operators are meant to return it *)
IsTrimmed(c) == Len(c) >= 1 /\ (c[Len(c)] # 0 \/ c = <<0>>)

(* the schoolbook product: coefficient m is the sum of f_i * g_j, i + j = m *)
RECURSIVE SchoolCoeff(_, _, _, _)
SchoolCoeff(f, g, m, i) ==
    IF i > m \/ i >= Len(f) THEN 0
    ELSE (IF m - i < Len(g) THEN f[i + 1] * g[m - i + 1] ELSE 0) + SchoolCoeff(f, g, m, i + 1)

SchoolMul(f, g, n) == [m1 \in 1..(Len(f) + Len(g) - 1) |-> SchoolCoeff(f, g, m1 - 1, 0) % n]

(* f + g coefficient by coefficient, reduced and trimmed *)
SchoolAdd(f, g, n) ==
    poly_trim([i \in 1..Max(Len(f), Len(g)) |->
                  ((IF i <= Len(f) THEN f[i] ELSE 0) + (IF i <= Len(g) THEN g[i] ELSE 0)) % n])

(* schoolbook long division of a by b, b's leading coefficient having the *)
(* inverse bi: the quotient, highest coefficient first                    *)
RECURSIVE LongDivision(_, _, _, _, _)
LongDivision(rem, b, bi, n, i) ==
    IF i > Len(rem) - Len(b) THEN <<>>
    ELSE LET top == Len(rem) - i
             quo_i == (rem[top] * bi) % n
         IN  <<quo_i>> \o
             LongDivision([j \in 1..Len(rem) |->
                              IF j > top - Len(b) /\ j <= top
                              THEN (rem[j] - quo_i * b[j - (top - Len(b))]) % n
                              ELSE rem[j]],
                          b, bi, n, i + 1)

Reverse(xs) == [i \in 1..Len(xs) |-> xs[Len(xs) + 1 - i]]

(* the quotient of x^(2d) by f, d the degree of f *)
RecipByDivision(f, n) ==
    Reverse(LongDivision([j \in 1..(2 * Len(f) - 1) |-> IF j = 2 * Len(f) - 1 THEN 1 ELSE 0],
                         f, inv(f[Len(f)], n).val, n, 0))

(***************************************************************************)
(* C17: every polynomial returned by +, -, * and divmod on trimmed operands *)
(* has a non-empty coefficient list with a non-zero last element, or is    *)
(* [0]; also for a zero operand and for leading coefficients whose product *)
(* is 0 mod n.                                                              *)
(***************************************************************************)
C17_OperatorsTrimmed ==
    /\ (PolyDone("add") \/ PolyDone("sub") \/ PolyDone("mul")) => IsTrimmed(h_ret.val)
    /\ (PolyDone("divmod") /\ h_ret.kind = "return") =>
           IsTrimmed(h_ret.val[1]) /\ IsTrimmed(h_ret.val[2])

(* what holds of the code: +, - and divmod return trimmed lists *)
C17_AddSubDivmodTrimmed ==
    /\ (PolyDone("add") \/ PolyDone("sub")) => IsTrimmed(h_ret.val)
    /\ (PolyDone("divmod") /\ h_ret.kind = "return") =>
           IsTrimmed(h_ret.val[1]) /\ IsTrimmed(h_ret.val[2])

(* a product with a zero operand, and one of two non-zero constants *)
C17_ZeroOperand == PolyDone("mul") /\ h_args.f = <<0>> /\ h_args.g = <<1>> /\ h_ret.val = <<>>

C17_ZeroDivisors ==
    PolyDone("mul") /\ h_args.n = 4 /\ h_args.f = <<2>> /\ h_args.g = <<0, 2>>
    /\ h_ret.val = <<0, 0>>

(***************************************************************************)
(* C18: for f and g with non-zero leading coefficients f * g has           *)
(* len(f) + len(g) - 1 coefficients and is the schoolbook product reduced  *)
(* mod n: no carry crosses from one packed slot into the next, also for    *)
(* f = g; the same for __mul__ of src/polynomial.py.                       *)
(***************************************************************************)
C18_MulIsSchoolbook ==
    ((PolyDone("mul") \/ PolyDone("legacy_mul")) /\ h_args.f # <<0>> /\ h_args.g # <<0>>) =>
        /\ Len(h_ret.val) = Len(h_args.f) + Len(h_args.g) - 1
        /\ h_ret.val = SchoolMul(h_args.f, h_args.g, h_args.n)

(* a square whose middle column sum does not fit one byte *)
C18_Witness ==
    /\ PolyDone("mul")
    /\ h_args.f = h_args.g
    /\ Len(h_args.f) = 2
    /\ SchoolCoeff(h_args.f, h_args.g, 1, 0) > 255
    /\ slot_bytes(2, h_args.n) = 2
    /\ h_ret.val = SchoolMul(h_args.f, h_args.g, h_args.n)

(***************************************************************************)
(* C19: for g with a leading coefficient invertible mod n, divmod(f, g)    *)
(* terminates and returns (q, r) with q*g + r = f and r = [0] or shorter   *)
(* than g; for len(f) >= len(g) q has len(f) - len(g) + 1 coefficients.    *)
(***************************************************************************)
C19_Divmod ==
    (PolyDone("divmod") /\ gcd(h_args.g[Len(h_args.g)], h_args.n) = 1) =>
        /\ h_ret.kind = "return"
        /\ SchoolAdd(SchoolMul(h_ret.val[1], h_args.g, h_args.n), h_ret.val[2], h_args.n)
              = h_args.f
        /\ (h_ret.val[2] = <<0>> \/ Len(h_ret.val[2]) < Len(h_args.g))
        /\ (Len(h_args.f) >= Len(h_args.g) =>
               Len(h_ret.val[1]) = Len(h_args.f) - Len(h_args.g) + 1)

(* a division whose loop does not end after its first pass *)
FirstRemainder(f, g, n) ==
    poly_sub(f, poly_mul(slice_from(poly_mul(slice_from(f, Len(g) - 1),
                                             poly_recip(g, n).val, n),
                                    Len(g) - 1), g, n), n)

C19_Witness ==
    /\ PolyDone("divmod")
    /\ gcd(h_args.g[Len(h_args.g)], h_args.n) = 1
    /\ Len(h_args.g) = 2 /\ Len(h_args.f) = MaxDeg
    /\ Len(FirstRemainder(h_args.f, h_args.g, h_args.n)) >= Len(h_args.g)
    /\ h_ret.kind = "return"
    /\ h_ret.val[2] # <<0>>

IndexError == [kind |-> "IndexError", val |-> 0, x |-> 0, n |-> 0]

(* lines 30-33: k doubles from 1 while k < poly_num *)
RECURSIVE leaf_count(_, _)
leaf_count(k, poly_num) == IF k < poly_num THEN leaf_count(k * 2, poly_num) ELSE k

(* lines 34-38: the leaves and the padding; <<>> stands for None *)
tree_leaves(poly_list, k) ==
    [j \in 1..(2 * k - 1) |->
        IF j < k THEN <<>>
        ELSE IF j - k + 1 <= Len(poly_list) THEN poly_list[j - k + 1]
        ELSE <<1>>]

(* lines 40-41: the nodes k // 2 - 1 .. k - 2 from their children *)
product_level(res, k, n) ==
    [j \in DOMAIN res |->
        IF j - 1 >= k \div 2 - 1 /\ j - 1 < k - 1
        THEN poly_mul(res[2 * j], res[2 * j + 1], n)
        ELSE res[j]]

(* lines 39-42 *)
RECURSIVE product_pass(_, _, _)
product_pass(res, k, n) ==
    IF k > 1 THEN product_pass(product_level(res, k, n), k \div 2, n) ELSE res

product_tree(poly_list, n) ==
    LET with_k(k) == product_pass(tree_leaves(poly_list, k), k, n)
    IN  with_k(leaf_count(1, Len(poly_list)))

(* lines 59-67: the reciprocals of the children of node i *)
recip_children_mutant(r_tree, prod_tree, i, n) ==
    LET gi_recip == r_tree[i + 1]
        g1 == prod_tree[2 * i + 2]
        g2 == prod_tree[2 * i + 3]
        d1 == Len(g1) - 1
    IN  r_tree \o <<slice_from(poly_mul(slice_from(gi_recip, d1), g2, n), d1),
                    slice_from(poly_mul(slice_from(gi_recip, d1), g1, n), d1)>>

recip_children(r_tree, prod_tree, i, n) ==
    LET gi_recip == r_tree[i + 1]
        g1 == prod_tree[2 * i + 2]
        g2 == prod_tree[2 * i + 3]
        d1 == Len(g1) - 1
        d2 == Len(g2) - 1
    IN  r_tree \o <<slice_from(poly_mul(slice_from(gi_recip, d2), g2, n), d2),
                    slice_from(poly_mul(slice_from(gi_recip, d1), g1, n), d1)>>

(* recip_tree, lines 57-68: only the root's recip() is computed by recip, *)
(* and it reads self.coeff[d] first: an IndexError on an empty list       *)
recip_tree(prod_tree, n) ==
    IF prod_tree[1] = <<>> THEN IndexError
    ELSE Bind(poly_recip(prod_tree[1], n), LAMBDA root_recip :
         Returned(Iterate(LAMBDA st : [t |-> recip_children(st.t, prod_tree, st.i, n),
                                       i |-> st.i + 1],
                          [t |-> <<root_recip>>, i |-> 0],
                          Len(prod_tree) \div 2).t))

(* lines 96-104: the while loop that reduces f_mod_g by gi; a loop that *)
(* has not ended after fuel passes is reported as <<>>                  *)
RECURSIVE rem_node_loop(_, _, _, _, _)
rem_node_loop(f_mod_g, gi, gi_recip, n, fuel) ==
    LET di == Len(gi) - 1
        with_rem(f_mod_gi) ==
            IF Len(f_mod_gi) < Len(gi) \/ (Len(f_mod_gi) = 1 /\ f_mod_gi[1] = 0)
            THEN f_mod_gi
            ELSE IF fuel = 0 THEN <<>>
            ELSE rem_node_loop(f_mod_gi, gi, gi_recip, n, fuel - 1)
    IN  with_rem(poly_sub(f_mod_g,
                          poly_mul(gi, slice_from(poly_mul(slice_from(f_mod_g, di),
                                                           gi_recip, n), di), n), n))

(* lines 88-105: f mod g_i for node i, from f or from the parent's entry *)
rem_node_step(st, f, g_tree, g_recip_tree, n) ==
    [t |-> Append(st.t,
                  rem_node_loop(IF st.i = 0 THEN f ELSE st.t[(st.i - 1) \div 2 + 1],
                                g_tree[st.i + 1], g_recip_tree[st.i + 1], n, Len(f))),
     i |-> st.i + 1]

(* lines 110-113: the leaves become their constant coefficients, 0 as 1 *)
rem_leaves(t, k) ==
    [j \in DOMAIN t |->
        IF j - 1 >= k \div 2 - 1 /\ j - 1 < k - 1 THEN rem_leaf(t[j][1]) ELSE t[j]]

(* lines 116-117: the nodes k // 2 - 1 .. k - 2 from their children *)
rem_level(t, k, n) ==
    [j \in DOMAIN t |->
        IF j - 1 >= k \div 2 - 1 /\ j - 1 < k - 1
        THEN Mul(t[2 * j], t[2 * j + 1], n)
        ELSE t[j]]

(* lines 114-118 *)
RECURSIVE rem_pass(_, _, _)
rem_pass(t, k, n) == IF k > 1 THEN rem_pass(rem_level(t, k, n), k \div 2, n) ELSE t

(* remainder_tree, lines 87-119 *)
remainder_tree(f, g_tree, g_recip_tree, n) ==
    LET with_nodes(t) == rem_pass(rem_leaves(t, Len(t) + 1), (Len(t) + 1) \div 2, n)
    IN  with_nodes(Iterate(LAMBDA st : rem_node_step(st, f, g_tree, g_recip_tree, n),
                           [t |-> <<>>, i |-> 0], Len(g_tree)).t)

(***************************************************************************)
(* The tree harness: a product tree is built from a list of polynomials,   *)
(* its reciprocal tree is taken, and, when the leaves are x - x_i, the     *)
(* remainder tree of a polynomial f.                                       *)
(***************************************************************************)
MaxLeaves == 3      \* every list of 1..MaxLeaves leaves, and one list of five

TreeModuli == {3, 4}

LinearLeaf(x, n) == <<(n - x) % n, 1>>

LeafPolys(n) ==
    {<<0>>, <<1>>, <<2>>, <<1, 2>>, <<1, 1, 1>>} \cup {LinearLeaf(x, n) : x \in 0..(n - 1)}

LeafLists(n) ==
    UNION {[1..m -> LeafPolys(n)] : m \in 1..MaxLeaves}
    \cup {[i \in 1..5 |-> LinearLeaf(i % n, n)]}

TreeFs(n) ==
    Polys(n, 2) \cup {[i \in 1..len |-> c] : len \in {3, 4, 6}, c \in 1..(n - 1)}

IsLinearMonic(p) == Len(p) = 2 /\ p[2] = 1

InitTree ==
    /\ DriverIdle
    /\ EcmIdle
    /\ SieveIdle
    /\ h_pc = "call"
    /\ h_args = <<>>
    /\ h_ret = NoOutcome

TreeProduct ==
    /\ h_pc = "call"
    /\ \E n \in TreeModuli : \E poly_list \in LeafLists(n) :
          LET built(p_tree) ==
                  /\ h_args' = [fn |-> "tree", n |-> n, polys |-> poly_list,
                                p_tree |-> p_tree, r_tree |-> <<>>, f |-> <<>>]
                  /\ h_ret' = Returned(p_tree)
          IN  built(product_tree(poly_list, n))
    /\ h_pc' = "product"
    /\ UNCHANGED <<dvars, evars, svars>>

TreeRecip ==
    /\ h_pc = "product"
    /\ LET taken(r) ==
               /\ h_ret' = r
               /\ h_args' = [h_args EXCEPT !.r_tree = IF r.kind = "return" THEN r.val ELSE <<>>]
       IN  taken(recip_tree(h_args.p_tree, h_args.n))
    /\ h_pc' = "recip"
    /\ UNCHANGED <<dvars, evars, svars>>

TreeRemainder ==
    /\ h_pc = "recip"
    /\ h_ret.kind = "return"
    /\ \A i \in DOMAIN h_args.polys : IsLinearMonic(h_args.polys[i])
    /\ \E f \in TreeFs(h_args.n) :
          /\ h_args' = [h_args EXCEPT !.f = f]
          /\ h_ret' = Returned(remainder_tree(f, h_args.p_tree, h_args.r_tree, h_args.n))
    /\ h_pc' = "remainder"
    /\ UNCHANGED <<dvars, evars, svars>>

NextTree == TreeProduct \/ TreeRecip \/ TreeRemainder

SpecTree == InitTree /\ [][NextTree]_vars

(* the product of the polynomials of a list, left to right, by the        *)
(* schoolbook product, as a trimmed list                                  *)
RECURSIVE ProductOf(_, _, _)
ProductOf(poly_list, m, n) ==
    IF m = 1 THEN poly_list[1]
    ELSE poly_trim(SchoolMul(ProductOf(poly_list, m - 1, n), poly_list[m], n))

(* the polynomial a coefficient list stands for: [] is the zero polynomial *)
PolyValue(c) == IF c = <<>> THEN <<0>> ELSE poly_trim(c)

TreeShape(p_tree, poly_list, n) ==
    LET k == (Len(p_tree) + 1) \div 2 IN
    /\ Len(p_tree) = 2 * k - 1
    /\ k >= Len(poly_list) /\ (k = 1 \/ k < 2 * Len(poly_list))
    /\ \E e \in 0..3 : k = 2 ^ e
    /\ \A i \in 1..k : p_tree[k - 1 + i] = IF i <= Len(poly_list) THEN poly_list[i] ELSE <<1>>
    /\ \A j \in 1..(k - 1) : p_tree[j] = poly_mul(p_tree[2 * j], p_tree[2 * j + 1], n)

(***************************************************************************)
(* C21: product_tree returns a list of length 2k - 1, k the smallest power *)
(* of two >= m, whose last k entries are the inputs in order followed by   *)
(* constant-1 padding, every internal node the product of its children,    *)
(* and the root the product of the inputs taken left to right.             *)
(***************************************************************************)
C21_ProductTree ==
    h_pc = "product" =>
        /\ TreeShape(h_args.p_tree, h_args.polys, h_args.n)
        /\ h_args.p_tree[1] = ProductOf(h_args.polys, Len(h_args.polys), h_args.n)

(* what holds of the code: the shape, and the root as a polynomial value *)
C21_ShapeAndValue ==
    h_pc = "product" =>
        /\ TreeShape(h_args.p_tree, h_args.polys, h_args.n)
        /\ PolyValue(h_args.p_tree[1]) = ProductOf(h_args.polys, Len(h_args.polys), h_args.n)

(* a zero leaf: the root is the empty list *)
C21_ZeroLeaf ==
    /\ h_pc = "product"
    /\ h_args.polys = <<(<<0>>), (<<1>>)>>
    /\ h_args.p_tree[1] = <<>>

(***************************************************************************)
(* C22: for a product tree whose nodes all have leading coefficients       *)
(* invertible mod n, recip_tree has the length of the product tree and     *)
(* entry i is prod_tree[i].recip(), padded leaves, single-leaf trees and   *)
(* leaves of differing degrees included.                                   *)
(***************************************************************************)
HasUnitLead(c, n) == c # <<>> /\ gcd(c[Len(c)], n) = 1

C22_RecipTree ==
    (h_pc = "recip" /\ \A j \in DOMAIN h_args.p_tree : HasUnitLead(h_args.p_tree[j], h_args.n)) =>
        /\ h_ret.kind = "return"
        /\ Len(h_ret.val) = Len(h_args.p_tree)
        /\ \A j \in DOMAIN h_args.p_tree :
              h_ret.val[j] = poly_recip(h_args.p_tree[j], h_args.n).val

(* three leaves of three different degrees and one padded leaf *)
C22_Witness ==
    /\ h_pc = "recip"
    /\ h_ret.kind = "return"
    /\ Len(h_args.polys) = 3
    /\ {Len(h_args.polys[i]) : i \in 1..3} = {1, 2, 3}
    /\ \A j \in DOMAIN h_args.p_tree : HasUnitLead(h_args.p_tree[j], h_args.n)
    /\ Len(h_ret.val) = 7

(* f(x) mod n by Horner's rule, from coefficient i down *)
RECURSIVE PolyEval(_, _, _, _)
PolyEval(f, x, n, i) ==
    IF i > Len(f) THEN 0 ELSE (f[i] + x * PolyEval(f, x, n, i + 1)) % n

(* f(x_i), 1 in place of 0, for leaf i of the list x - x_i *)
LeafValue(f, leaf, n) ==
    LET v == PolyEval(f, (n - leaf[1]) % n, n, 1) IN IF v = 0 THEN 1 ELSE v

RECURSIVE LeafProduct(_, _, _, _)
LeafProduct(f, poly_list, n, m) ==
    IF m = 0 THEN 1 % n
    ELSE (LeafProduct(f, poly_list, n, m - 1) * LeafValue(f, poly_list[m], n)) % n

(***************************************************************************)
(* C23: for leaves g_i = x - x_i the root of remainder_tree is the product *)
(* of the f(x_i) mod n with every f(x_i) = 0 replaced by 1, and leaf i is  *)
(* f(x_i) mod n, or 1 where that is 0; for any number of leaves and any    *)
(* degree of f.                                                            *)
(***************************************************************************)
C23_RemainderTree ==
    h_pc = "remainder" =>
        LET k == (Len(h_args.p_tree) + 1) \div 2 IN
        /\ Len(h_ret.val) = Len(h_args.p_tree)
        /\ h_ret.val[1] = LeafProduct(h_args.f, h_args.polys, h_args.n, Len(h_args.polys))
        /\ \A i \in 1..k :
              h_ret.val[k - 1 + i] = IF i <= Len(h_args.polys)
                                     THEN LeafValue(h_args.f, h_args.polys[i], h_args.n)
                                     ELSE 1

(* three leaves under an f of degree 5 with a root among the x_i, and a  *)
(* product that is not 1                                                 *)
C23_Witness ==
    /\ h_pc = "remainder"
    /\ Len(h_args.polys) = 3
    /\ Len(h_args.f) = 6
    /\ \E i \in 1..3 : PolyEval(h_args.f, (h_args.n - h_args.polys[i][1]) % h_args.n, h_args.n, 1) = 0
    /\ h_ret.val[1] > 1

(***************************************************************************)
(* The Montgomery ladder of src/ecm_montgomery.py, one pass of its loop    *)
(* at a time, on the curves of get_curve_a.                                *)
(***************************************************************************)
MaxMult == 12       \* multipliers -MaxMult .. MaxMult

LadderModuli == {7, 11, 13}

(* get_curve_a, lines 62-73 *)
get_curve_a(x, A, n) ==
    IF A % n \in {n - 2, 2} THEN CurveInitFail
    ELSE Bind(inv_ecm_common(4, n), LAMBDA four_inv :
              Returned(<< <<x % n, 1>>, <<A, Mul(A + 2, four_inv, n), n>> >>))

InitLadder ==
    /\ DriverIdle
    /\ EcmIdle
    /\ SieveIdle
    /\ h_pc = "call"
    /\ h_args = <<>>
    /\ h_ret = NoOutcome

(* mul_pt_exn is entered, lines 186-197: k <= 2 returns at once (a        *)
(* negative k after the call with -k), otherwise res0, res1 and j are set *)
LadderCall ==
    /\ h_pc = "call"
    /\ \E n \in LadderModuli : \E A \in 0..(n - 1) : \E x \in 0..(n - 1) :
       \E k \in (-MaxMult)..MaxMult :
          LET made(c) ==
                  /\ c.kind = "return"
                  /\ h_args' = [fn |-> "mul_pt_exn", pt |-> c.val[1], curve |-> c.val[2],
                                k |-> k, x |-> x,
                                st |-> [res0 |-> c.val[1], res1 |-> dbl_pt(c.val[1], c.val[2]),
                                        j |-> bit_length(Abs(k)) - 2]]
                  /\ IF Abs(k) <= 2
                     THEN /\ h_pc' = "done"
                          /\ h_ret' = mnt_mul_pt_exn(c.val[1], c.val[2], k)
                     ELSE /\ h_pc' = "ladder"
                          /\ h_ret' = NoOutcome
          IN  made(get_curve_a(x, A, n))
    /\ UNCHANGED <<dvars, evars, svars>>

(* lines 198-205: one pass of the while loop *)
LadderStep ==
    /\ h_pc = "ladder"
    /\ h_args.st.j >= 1
    /\ h_args' = [h_args EXCEPT !.st = ladder_step(h_args.st, h_args.pt, h_args.curve,
                                                   Abs(h_args.k))]
    /\ UNCHANGED <<h_pc, h_ret, dvars, evars, svars>>

(* lines 206-210: the last bit, and check *)
LadderReturn ==
    /\ h_pc = "ladder"
    /\ h_args.st.j < 1
    /\ h_ret' = check(IF Abs(h_args.k) % 2 = 1
                      THEN add_pt(h_args.st.res1, h_args.st.res0, h_args.pt, h_args.curve)
                      ELSE dbl_pt(h_args.st.res0, h_args.curve), h_args.curve)
    /\ h_pc' = "done"
    /\ UNCHANGED <<h_args, dvars, evars, svars>>

NextLadder == LadderCall \/ LadderStep \/ LadderReturn

SpecLadder == InitLadder /\ [][NextLadder]_vars

(***************************************************************************)
(* The reference: the group law of B y^2 = x^3 + A x^2 + x over a prime p  *)
(* in affine coordinates, <<>> the point at infinity.  The point of        *)
(* get_curve_a is taken with y = 1, which fixes B; where x^3 + A x^2 + x   *)
(* is 0 the point has y = 0 and order two.                                 *)
(***************************************************************************)
Infinity == <<>>

InvP(a, p) == inv(a, p).val

AffineAdd(P, Q, A, B, p) ==
    IF P = Infinity THEN Q
    ELSE IF Q = Infinity THEN P
    ELSE IF P[1] = Q[1] /\ (P[2] + Q[2]) % p = 0 THEN Infinity
    ELSE LET from(lam) ==
                 LET x3 == (Mul(B, Mul(lam, lam, p), p) - A - P[1] - Q[1]) % p
                 IN  <<x3, (Mul(lam, P[1] - x3, p) - P[2]) % p>>
         IN  IF P[1] = Q[1]
             THEN from(Mul(3 * P[1] * P[1] + 2 * A * P[1] + 1,
                           InvP(Mul(2 * B, P[2], p), p), p))
             ELSE from(Mul(Q[2] - P[2], InvP(Q[1] - P[1], p), p))

CurveB(x, A, p) == (x * x * x + A * x * x + x) % p

AffinePoint(x, A, p) == <<x % p, IF CurveB(x, A, p) = 0 THEN 0 ELSE 1>>

RECURSIVE AffineMul(_, _, _, _)
AffineMul(x, A, p, m) ==
    IF m = 0 THEN Infinity
    ELSE AffineAdd(AffineMul(x, A, p, m - 1), AffinePoint(x, A, p), A,
                   IF CurveB(x, A, p) = 0 THEN 1 ELSE CurveB(x, A, p), p)

(* <<X, Z>> is a projective representative of the affine point R *)
Represents(pt, R, p) ==
    IF R = Infinity THEN pt[2] % p = 0
    ELSE pt[2] % p # 0 /\ (pt[1] - R[1] * pt[2]) % p = 0

Multiple(m) == AffineMul(h_args.x, h_args.curve[1], h_args.curve[3], m)

(* the multiples the ladder passes through for k: m and m + 1 for every  *)
(* prefix m of the bits of k                                             *)
Visited(k) ==
    IF k <= 2 THEN {k}
    ELSE UNION {{k \div Pow2(t), k \div Pow2(t) + 1} : t \in 0..(bit_length(k) - 1)}

NoInfinityMet == \A m \in Visited(Abs(h_args.k)) : Multiple(m) # Infinity

(* the multiple held in res0: the bits of k above bit j *)
Prefix == Abs(h_args.k) \div Pow2(h_args.st.j + 1)

(***************************************************************************)
(* C24: for every point P and k >= 1 for which no infinity is met, the     *)
(* ladder keeps R1 = R0 + P as projective points at every step and returns *)
(* a representative of k*P; it returns exactly dbl_pt(P) for k = 2 and     *)
(* add_pt(dbl_pt(P), P, P) for k = 3, and for k < 0 the pair of -k.        *)
(***************************************************************************)
C24_Ladder ==
    /\ (h_pc = "ladder" /\ NoInfinityMet) =>
           /\ Represents(h_args.st.res0, Multiple(Prefix), h_args.curve[3])
           /\ Represents(h_args.st.res1, Multiple(Prefix + 1), h_args.curve[3])
    /\ (h_pc = "done" /\ h_args.k # 0 /\ NoInfinityMet) =>
           /\ h_ret.kind = "return"
           /\ Represents(h_ret.val, Multiple(Abs(h_args.k)), h_args.curve[3])
           /\ h_ret = mnt_mul_pt_exn(h_args.pt, h_args.curve, -h_args.k)
           /\ h_args.k = 2 => h_ret.val = dbl_pt(h_args.pt, h_args.curve)
           /\ h_args.k = 3 => h_ret.val = add_pt(dbl_pt(h_args.pt, h_args.curve),
                                                 h_args.pt, h_args.pt, h_args.curve)
    /\ h_pc = "done" => h_ret = mnt_mul_pt_exn(h_args.pt, h_args.curve, h_args.k)

(* k = 11 = 1011b on a point of order above 12: both branches of the loop *)
(* have been taken and the last bit added                                 *)
C24_Witness ==
    /\ h_pc = "done"
    /\ h_args.k = 11
    /\ NoInfinityMet
    /\ h_ret.kind = "return"
    /\ h_ret.val # h_args.pt

(***************************************************************************)
(* The affine addition of src/ecm.py: add_pt_exn with the inversion        *)
(* inline, and add_pt, which turns InverseNotFound into the point at       *)
(* infinity.                                                               *)
(***************************************************************************)
ecm_add_pt_exn(pt1, pt2, curve) ==
    LET n == curve[3]
        from_xr(s, xr) == <<xr, (Mul(s, pt1[1] - xr, n) - pt1[2]) % n>>
        from_s(s) == from_xr(s, (Mul(s, s, n) - pt1[1] - pt2[1]) % n)
    IN  IF pt1 = NonePt THEN Returned(pt2)
        ELSE IF pt2 = NonePt THEN Returned(pt1)
        ELSE IF pt1 = pt2
        THEN Bind(inv_ecm(2 * pt1[2], n), LAMBDA i :
                  Returned(from_s(Mul(3 * pt1[1] * pt1[1] + curve[1], i, n))))
        ELSE Bind(inv_ecm(pt2[1] - pt1[1], n), LAMBDA i :
                  Returned(from_s(Mul(pt2[2] - pt1[2], i, n))))

ecm_add_pt(pt1, pt2, curve) ==
    LET caught(r) == IF r.kind = "InverseNotFound" THEN Returned(NonePt) ELSE r
    IN  caught(ecm_add_pt_exn(pt1, pt2, curve))

(***************************************************************************)
(* The addition harness: O + P, P + O and P + neg(P) by add_pt_exn of      *)
(* src/wheel_sieve/ecm/ecm_weierstrass.py and by add_pt of src/ecm.py.     *)
(***************************************************************************)
AffineModuli == {5, 6, 7}

AffinePoints(n) == {NonePt} \cup ((0..(n - 1)) \X (0..(n - 1)))

AddCases == {"O+P", "P+O", "P+neg(P)"}

(* a curve through P, or through (0, 1) when P is the point at infinity *)
CurveThrough(P, a, n) == get_curve(IF P = NonePt THEN <<0, 1>> ELSE P, a, n)

Operands(case, P, curve) ==
    IF case = "O+P" THEN <<NonePt, P>>
    ELSE IF case = "P+O" THEN <<P, NonePt>>
    ELSE <<P, neg_pt(P, curve)>>

AddCall(fn, case, P, curve) ==
    LET ops == Operands(case, P, curve)
    IN  [fn |-> fn, case |-> case, P |-> P, curve |-> curve, pt1 |-> ops[1], pt2 |-> ops[2]]

InitAffine ==
    /\ DriverIdle
    /\ EcmIdle
    /\ SieveIdle
    /\ h_pc = "call"
    /\ h_args = <<>>
    /\ h_ret = NoOutcome

AffineAddPtExn ==
    /\ h_pc = "call"
    /\ \E n \in AffineModuli : \E a \in 0..(n - 1) : \E P \in AffinePoints(n) :
       \E case \in AddCases :
          LET called(c) ==
                  /\ h_args' = c
                  /\ h_ret' = wst_add_pt_exn(c.pt1, c.pt2, c.curve)
          IN  called(AddCall("add_pt_exn", case, P, CurveThrough(P, a, n)))
    /\ h_pc' = "done"
    /\ UNCHANGED <<dvars, evars, svars>>

AffineAddPt ==
    /\ h_pc = "call"
    /\ \E n \in AffineModuli : \E a \in 0..(n - 1) : \E P \in AffinePoints(n) :
       \E case \in AddCases :
          LET called(c) ==
                  /\ h_args' = c
                  /\ h_ret' = ecm_add_pt(c.pt1, c.pt2, c.curve)
          IN  called(AddCall("add_pt", case, P, CurveThrough(P, a, n)))
    /\ h_pc' = "done"
    /\ UNCHANGED <<dvars, evars, svars>>

NextAffine == AffineAddPtExn \/ AffineAddPt

SpecAffine == InitAffine /\ [][NextAffine]_vars

(***************************************************************************)
(* C25: for any affine Weierstrass curve and any point P, the infinity     *)
(* sentinel O included, add(O, P) = P, add(P, O) = P and                    *)
(* add(P, neg(P)) = O.                                                     *)
(***************************************************************************)
C25_AddLaws ==
    h_pc = "done" =>
        h_ret = Returned(IF h_args.case = "P+neg(P)" THEN NonePt ELSE h_args.P)

(* C25 as the code has it: add_pt of src/ecm.py returns O for P + neg(P),  *)
(* add_pt_exn raises InverseNotFound there unless P is O.                  *)
C25_AddLawsOrRaise ==
    h_pc = "done" =>
        IF h_args.case = "P+neg(P)" /\ h_args.fn = "add_pt_exn" /\ h_args.P # NonePt
        THEN h_ret.kind = "InverseNotFound"
        ELSE h_ret = Returned(IF h_args.case = "P+neg(P)" THEN NonePt ELSE h_args.P)

(* P + neg(P) by add_pt of src/ecm.py for a point with y = 0, whose       *)
(* negation is written (x, n)                                             *)
C25_Witness ==
    /\ h_pc = "done"
    /\ h_args.fn = "add_pt"
    /\ h_args.case = "P+neg(P)"
    /\ h_args.P # NonePt
    /\ h_args.P[2] = 0
    /\ h_args.pt2[2] = h_args.curve[3]
    /\ h_ret = Returned(NonePt)

(* P + neg(P) by add_pt_exn raises *)
C25_Raises ==
    /\ h_pc = "done"
    /\ h_args.fn = "add_pt_exn"
    /\ h_args.case = "P+neg(P)"
    /\ h_ret.kind = "InverseNotFound"

(***************************************************************************)
(* The generator protocol of mul_pt_gen and mul_pt_multi.  A generator     *)
(* object is the generator g of mul_pt_gen, the phase it is suspended in   *)
(* ("new" before its first send, "denom" at a yield of a denominator,      *)
(* "none" at yield None, "point" at yield res, "stopped" after a send that *)
(* ran it off its end) and the log of what was sent to it and what it      *)
(* yielded.                                                                *)
(***************************************************************************)
Sent(v) == [op |-> "send", v |-> v, pt |-> <<>>]

Yielded(v) == [op |-> "yield", v |-> v, pt |-> <<>>]

YieldedPoint(pt) == [op |-> "point", v |-> NoneInt, pt |-> pt]

StopIteration == [op |-> "StopIteration", v |-> NoneInt, pt |-> <<>>]

gen_object(point, curve, k) == [g |-> mul_pt_gen(point, curve, k), phase |-> "new", log |-> <<>>]

(* gen.send(v) *)
gen_send(G, curve, v) ==
    LET resumed(g1) ==
            [g |-> g1, phase |-> IF g1.at = "end" THEN "none" ELSE "denom",
             log |-> G.log \o <<Sent(v), Yielded(g1.req)>>]
    IN  IF G.phase = "new" THEN resumed(mul_pt_gen_run(G.g, curve))
        ELSE IF G.phase = "denom" THEN resumed(mul_pt_gen_send(G.g, curve, v))
        ELSE IF G.phase = "none"
        THEN [G EXCEPT !.phase = "point", !.log = G.log \o <<Sent(v), YieldedPoint(G.g.res)>>]
        ELSE [G EXCEPT !.phase = "stopped", !.log = G.log \o <<Sent(v), StopIteration>>]

(* denom_list[i]: what generator i yielded last *)
denom_of(G) == G.g.req

(* lines 217-220 for one i of working_set *)
resume_mutant(G, curve, denom_inv_dict) ==
    LET again(G1) == IF denom_of(G1) # NoneInt /\ DictHas(denom_inv_dict, denom_of(G1))
                     THEN gen_send(G1, curve, DictGet(denom_inv_dict, denom_of(G)))
                     ELSE G1
    IN  again(gen_send(G, curve, DictGet(denom_inv_dict, denom_of(G))))

resume(G, curve, denom_inv_dict) ==
    LET again(G1) == IF denom_of(G1) # NoneInt /\ DictHas(denom_inv_dict, denom_of(G1))
                     THEN gen_send(G1, curve, DictGet(denom_inv_dict, denom_of(G1)))
                     ELSE G1
    IN  again(gen_send(G, curve, DictGet(denom_inv_dict, denom_of(G))))

ProtocolCurves ==
    {[pt |-> <<x0, 1>>, curve |-> get_curve(<<x0, 1>>, a, n)] :
        x0 \in 0..1, a \in 1..2, n \in {15, 35}}

InitProtocol ==
    /\ DriverIdle
    /\ EcmIdle
    /\ SieveIdle
    /\ h_pc = "call"
    /\ h_args = <<>>
    /\ h_ret = NoOutcome

(* lines 204-213: the generators are made and each is sent None *)
ProtocolStart ==
    /\ h_pc = "call"
    /\ \E c \in ProtocolCurves : \E k_ls \in MultiLists :
          h_args' = [fn |-> "mul_pt_multi", n |-> c.curve[3], xs |-> k_ls,
                     pt |-> c.pt, curve |-> c.curve, round |-> 0,
                     gens |-> [i \in DOMAIN k_ls |->
                                 gen_send(gen_object(c.pt, c.curve, k_ls[i]), c.curve, NoneInt)]]
    /\ h_pc' = "batch"
    /\ UNCHANGED <<h_ret, dvars, evars, svars>>

Working(gens) == working_set([i \in DOMAIN gens |-> gens[i].g])

(* lines 214-226: one pass of "while working_set" *)
ProtocolBatch ==
    /\ h_pc = "batch" /\ Working(h_args.gens) # {}
    /\ LET gens == h_args.gens
           passed(r) ==
               IF r.kind # "return"
               THEN h_pc' = "done" /\ h_ret' = r /\ UNCHANGED h_args
               ELSE /\ h_pc' = "batch"
                    /\ h_args' = [h_args EXCEPT
                           !.round = h_args.round + 1,
                           !.gens = [i \in DOMAIN gens |->
                                       IF i \in Working(gens)
                                       THEN resume(gens[i], h_args.curve, r.val)
                                       ELSE gens[i]]]
                    /\ UNCHANGED h_ret
       IN  passed(inv_multi(denom_list_of({denom_of(gens[i]) : i \in Working(gens)}),
                            h_args.n))
    /\ UNCHANGED <<dvars, evars, svars>>

(* line 227: each generator is sent None once more and yields its point *)
ProtocolReturn ==
    /\ h_pc = "batch" /\ Working(h_args.gens) = {}
    /\ LET returned(collected) ==
               /\ h_args' = [h_args EXCEPT !.gens = collected]
               /\ h_ret' = Returned([i \in DOMAIN collected |->
                                        collected[i].log[Len(collected[i].log)].pt])
       IN  returned([i \in DOMAIN h_args.gens |->
                        gen_send(h_args.gens[i], h_args.curve, NoneInt)])
    /\ h_pc' = "done"
    /\ UNCHANGED <<dvars, evars, svars>>

NextProtocol == ProtocolStart \/ ProtocolBatch \/ ProtocolReturn

SpecProtocol == InitProtocol /\ [][NextProtocol]_vars

(* the log of a generator: sends and yields alternate, a send first *)
IsDenominator(e) == e.op = "yield" /\ e.v # NoneInt

IsNone(e) == e.op = "yield" /\ e.v = NoneInt

(* the yields so far are denominators, then at most one None, then at most *)
(* one point, and nothing after the point                                  *)
YieldPattern(log) ==
    \A j \in DOMAIN log :
        /\ log[j].op = "send" <=> j % 2 = 1
        /\ log[j].op # "StopIteration"
        /\ IsDenominator(log[j]) => \A l \in 1..(j - 1) : l % 2 = 0 => IsDenominator(log[l])
        /\ IsNone(log[j]) => \A l \in 1..(j - 1) : l % 2 = 0 => IsDenominator(log[l])
        /\ log[j].op = "point" => j = Len(log) /\ j >= 4 /\ IsNone(log[j - 2])

(* what was sent: None to start the generator and to collect its point,   *)
(* and otherwise the inverse mod n of the denominator it yielded last     *)
SendsInverses(log, n) ==
    \A j \in DOMAIN log :
        log[j].op = "send" =>
            IF j = 1 THEN log[j].v = NoneInt
            ELSE IF IsDenominator(log[j - 1])
            THEN log[j].v # NoneInt /\ (log[j].v * log[j - 1].v) % n = 1
            ELSE IsNone(log[j - 1]) /\ log[j].v = NoneInt

(***************************************************************************)
(* C26: for every k, mul_pt_gen yields zero or more non-None denominators, *)
(* then exactly one None, then the result point; mul_pt_multi only sends   *)
(* a generator the inverse of the denominator it yielded last, resumes     *)
(* every unfinished generator at least once in each batch round, and never *)
(* resumes a generator that has yielded its point.                         *)
(***************************************************************************)
C26_Protocol ==
    /\ [](h_pc \in {"batch", "done"} =>
            \A i \in DOMAIN h_args.gens :
                /\ YieldPattern(h_args.gens[i].log)
                /\ SendsInverses(h_args.gens[i].log, h_args.n)
                /\ h_args.gens[i].phase # "stopped"
                /\ (h_pc = "done" /\ h_ret.kind = "return") =>
                       /\ h_args.gens[i].phase = "point"
                       /\ h_ret.val[i] = h_args.gens[i].g.res)
    /\ [][(h_pc = "batch" /\ h_pc' = "batch") =>
            \A i \in Working(h_args.gens) :
                Len(h_args'.gens[i].log) > Len(h_args.gens[i].log)]_vars

(* two generators, one sent two inverses in one round, the other finished *)
(* rounds before the first, and both yielded their points                 *)
C26_Witness ==
    /\ h_pc = "done"
    /\ h_ret.kind = "return"
    /\ h_args.round >= 3
    /\ Len(h_args.xs) = 2
    /\ Len(h_args.gens[1].log) > 2 * h_args.round + 4
    /\ Len(h_args.gens[2].log) < 2 * h_args.round + 4
    /\ Len(h_args.gens[2].log) > 4

(***************************************************************************)
(* The step of factorize that records a prime, lines 96-108.               *)
(***************************************************************************)
(* the entries <<key, multiplicity>> of the worklist without the popped    *)
(* one, followed by those of the unresolved map                            *)
EntriesBefore == SubSeq(working_dict, 1, Len(working_dict) - 1) \o remaining_factors

Popped == working_dict[Len(working_dict)]

Cofactor(k, c) == k \div PowSat(c, Multiplicity(k, c))

(* the powers of c in the entries from i on *)
RECURSIVE AbsorbedPower(_, _, _)
AbsorbedPower(es, i, c) ==
    IF i > Len(es) THEN 0
    ELSE es[i][2] * Multiplicity(es[i][1], c) + AbsorbedPower(es, i + 1, c)

(* the multiplicities of the entries from i on that c divides and that    *)
(* leave the cofactor g                                                   *)
RECURSIVE LeftOver(_, _, _, _)
LeftOver(es, i, c, g) ==
    IF i > Len(es) THEN 0
    ELSE (IF es[i][1] % c = 0 /\ Cofactor(es[i][1], c) = g THEN es[i][2] ELSE 0)
         + LeftOver(es, i + 1, c, g)

(* the multiplicity the worklist owes the key g once c has been recorded: *)
(* what it had, and the multiplicities of the absorbed keys that leave g  *)
OwedTo(g, c) ==
    LET wd == SubSeq(working_dict, 1, Len(working_dict) - 1) IN
    (IF DictHas(wd, g) /\ g % c # 0 THEN DictGet(wd, g) ELSE 0)
    + LeftOver(EntriesBefore, 1, c, g)

RecordsPrime == d_pc = "loop" /\ prime_factors' # prime_factors

(***************************************************************************)
(* C27: when the driver records a popped entry c as prime, then after the  *)
(* step no key of the worklist or of the unresolved map is divisible by c, *)
(* every absorbed power of c is in c's multiplicity, and the cofactors     *)
(* left over are in the worklist; a prime is never recorded twice, and on  *)
(* return no unresolved composite shares a factor with a recorded prime.   *)
(***************************************************************************)
C27_RecordPrime ==
    /\ [][RecordsPrime =>
            LET c == Popped[1] IN
            /\ ~DictHas(prime_factors, c)
            /\ \A i \in DOMAIN prime_factors : prime_factors'[i] = prime_factors[i]
            /\ \A i \in DOMAIN working_dict' : working_dict'[i][1] % c # 0
            /\ \A i \in DOMAIN remaining_factors' : remaining_factors'[i][1] % c # 0
            /\ DictGet(prime_factors', c)
                 = Popped[2] + AbsorbedPower(EntriesBefore, 1, c)
            /\ \A i \in DOMAIN EntriesBefore :
                  LET g == IF EntriesBefore[i][1] % c = 0
                           THEN Cofactor(EntriesBefore[i][1], c) ELSE EntriesBefore[i][1]
                      unresolved == i >= Len(working_dict)
                  IN  IF unresolved /\ EntriesBefore[i][1] % c # 0
                      THEN DictHas(remaining_factors', g)
                           /\ DictGet(remaining_factors', g) = EntriesBefore[i][2]
                      ELSE g > 1 => DictHas(working_dict', g)
                                    /\ DictGet(working_dict', g) = OwedTo(g, c)
            /\ \A i \in DOMAIN working_dict' : OwedTo(working_dict'[i][1], c) > 0
       ]_vars
    /\ [](d_pc = "returned" =>
            \A i \in DOMAIN remaining_factors : \A j \in DOMAIN prime_factors :
                gcd(remaining_factors[i][1], prime_factors[j][1]) = 1)

(* a prime was recorded with an absorbed power, a key of the unresolved   *)
(* map was absorbed, and a cofactor is in the worklist                    *)
C27_Witness ==
    /\ d_pc = "loop"
    /\ "unresolved.pop" \in d_calls
    /\ working_dict # <<>>
    /\ remaining_factors = <<>>
    /\ \E i \in DOMAIN prime_factors :
          prime_factors[i][1] >= SmallPrimeBound /\ prime_factors[i][2] >= 2

(***************************************************************************)
(* The block loop of Stage 2 of src/wheel_sieve/ecm/ecm_polyeval.py, lines *)
(* 142-143 and 177-199: which steps c each block of g_poly_list holds.     *)
(***************************************************************************)
MaxBlocks == 2      \* Stage 2 runs over up to MaxBlocks * block_size + 1 steps

Wheels == {30, 210, 2310}

(* line 143: 1 << (len(j_list) - 1).bit_length() - 1 *)
block_size_mutant(len) == Pow2(bit_length(len - 1))

block_size(len) == Pow2(bit_length(len - 1) - 1)

(* the numbers of steps c2 - c1 of the calls, around the multiples of the *)
(* block size                                                             *)
StepCounts(wheel) ==
    LET B == block_size(Len(j_list_of(wheel))) IN
    {2, 3} \cup {s \in {m * B + d : m \in 1..MaxBlocks, d \in {0 - 1, 0, 1}} : s >= 2}

(* b1 and b2 with b1 < b2 and c2 - c1 = steps *)
StageBounds(wheel) ==
    {b \in {[b1 |-> b1, b2 |-> ((b1 \div wheel) + steps - 2) * wheel + r] :
                b1 \in {wheel - 1, 2 * wheel, 5 * wheel + 7}, steps \in StepCounts(wheel),
                r \in {0, wheel - 1}} : b.b1 < b.b2}

InitBlocks ==
    /\ DriverIdle
    /\ EcmIdle
    /\ SieveIdle
    /\ h_pc = "call"
    /\ h_args = <<>>
    /\ h_ret = NoOutcome

(* lines 142-143, 177-179 *)
BlocksEnter ==
    /\ h_pc = "call"
    /\ \E wheel \in Wheels : \E b \in StageBounds(wheel) :
          h_args' = [fn |-> "ecm", wheel |-> wheel, b1 |-> b.b1, b2 |-> b.b2,
                     j_list |-> j_list_of(wheel),
                     block_size |-> block_size(Len(j_list_of(wheel))),
                     c1 |-> b.b1 \div wheel, c2 |-> b.b2 \div wheel + 2,
                     c |-> 0, blocks |-> <<>>]
    /\ h_pc' = "blocks"
    /\ UNCHANGED <<h_ret, dvars, evars, svars>>

(* lines 192-199: one pass of the while loop; the block holds one g for   *)
(* each step of the inner loop, here the step c1 + c it was made at       *)
BlocksAdvance ==
    /\ h_pc = "blocks"
    /\ h_args.c < h_args.c2 - h_args.c1
    /\ LET size == Min(h_args.block_size, h_args.c2 - h_args.c1 - h_args.c)
       IN  h_args' = [h_args EXCEPT
                        !.blocks = h_args.blocks
                                   \o << [i \in 1..size |-> h_args.c1 + h_args.c + i - 1] >>,
                        !.c = h_args.c + size]
    /\ UNCHANGED <<h_pc, h_ret, dvars, evars, svars>>

(* line 192: the loop ends; line 200 *)
BlocksExit ==
    /\ h_pc = "blocks"
    /\ ~(h_args.c < h_args.c2 - h_args.c1)
    /\ h_pc' = "done"
    /\ UNCHANGED <<h_args, h_ret, dvars, evars, svars>>

NextBlocks == BlocksEnter \/ BlocksAdvance \/ BlocksExit

SpecBlocks == InitBlocks /\ [][NextBlocks]_vars

FloorLog2(x) == CHOOSE e \in 0..30 : Pow2(e) <= x /\ x < Pow2(e + 1)

CoprimeResidues(wheel) == {j \in 1..(wheel \div 2 - 1) : gcd(j, wheel) = 1}

RECURSIVE Flatten(_, _)
Flatten(blocks, k) == IF k = 0 THEN <<>> ELSE Flatten(blocks, k - 1) \o blocks[k]

(* the blocks so far hold the steps b1 // wheel, b1 // wheel + 1, ... in  *)
(* order, each once, and at the end all of them up to b2 // wheel + 1     *)
CoversSteps ==
    LET steps == Flatten(h_args.blocks, Len(h_args.blocks)) IN
    /\ \A i \in DOMAIN steps : steps[i] = h_args.b1 \div h_args.wheel + i - 1
    /\ h_pc = "done" =>
          /\ Len(steps) = h_args.c2 - h_args.c1
          /\ steps[Len(steps)] = h_args.b2 \div h_args.wheel + 1
    /\ Range(h_args.j_list) = CoprimeResidues(h_args.wheel)
    /\ Len(h_args.j_list) = Cardinality(CoprimeResidues(h_args.wheel))

(***************************************************************************)
(* C28: for each wheel 30, 210, 2310 Stage 2 advances in blocks of size    *)
(* exactly 2^floor(log2(|j_list|)), j_list the residues 1 <= j < wheel/2   *)
(* coprime to the wheel, and the blocks together cover exactly the steps   *)
(* c = b1//wheel, ..., b2//wheel + 1, each once.                           *)
(***************************************************************************)
C28_Blocks ==
    h_pc \in {"blocks", "done"} =>
        /\ \A k \in DOMAIN h_args.blocks :
              Len(h_args.blocks[k]) = Pow2(FloorLog2(Len(h_args.j_list)))
        /\ CoversSteps

(* C28 as the code has it: the block size is 2^floor(log2(|j_list| - 1)), *)
(* 2 for wheel 30, 16 for 210 and 128 for 2310, and the last block holds  *)
(* the steps that remain.                                                 *)
C28_BlocksOfCode ==
    h_pc \in {"blocks", "done"} =>
        LET B == Pow2(FloorLog2(Len(h_args.j_list) - 1)) IN
        /\ h_args.block_size = B
        /\ h_args.wheel # 30 => B = Pow2(FloorLog2(Len(h_args.j_list)))
        /\ \A k \in DOMAIN h_args.blocks :
              Len(h_args.blocks[k]) = Min(B, h_args.c2 - h_args.c1 - (k - 1) * B)
        /\ CoversSteps

(* wheel 2310: a full block of 128 and a last block of one step *)
C28_Witness ==
    /\ h_pc = "done"
    /\ h_args.wheel = 2310
    /\ Len(h_args.blocks) = 2
    /\ Len(h_args.blocks[1]) = 128
    /\ Len(h_args.blocks[2]) = 1

(***************************************************************************)
(* Several PRIME_GEN iterators alive at once on the one Worker of          *)
(* src/wheel_sieve/wheel_sieve_byte.py.  Each iterator has its own index i *)
(* and bound; primes, lim and ubound are shared.  A next() runs lines      *)
(* 49-58 to the next yield or to the break, the extension of the cache by  *)
(* Worker.gen included, so iterators interleave at their yields.           *)
(***************************************************************************)
IterNames == {"first", "second"}

IterBounds == {3, 7, 26, 32, MaxSieve}

(* next() on an iterator: the cache it leaves and the iterator *)
iter_next_mutant(it, c, mem) ==
    LET after_gen(c2) ==
            IF it.i >= Len(c2.primes) \/ c2.primes[it.i + 1] >= it.a
            THEN [c |-> c2, it |-> [it EXCEPT !.done = TRUE]]
            ELSE [c |-> c2, it |-> [it EXCEPT !.i = it.i + 1,
                                              !.out = Append(it.out, c2.primes[it.i + 1])]]
        after_set_n(c1) == after_gen(IF it.i >= Len(c1.primes) THEN gen(c1, mem) ELSE c1)
    IN  after_set_n(IF it.i = 0 /\ it.out = <<>> THEN [c EXCEPT !.ubound = it.a] ELSE c)

iter_next(it, c, mem) ==
    LET after_gen(c2) ==
            IF it.i >= Len(c2.primes) \/ c2.primes[it.i + 1] >= it.a
            THEN [c |-> c2, it |-> [it EXCEPT !.done = TRUE]]
            ELSE [c |-> c2, it |-> [it EXCEPT !.i = it.i + 1,
                                              !.out = Append(it.out, c2.primes[it.i + 1])]]
        after_set_n(c1) == after_gen(IF it.i >= Len(c1.primes) THEN gen(c1, mem) ELSE c1)
    IN  after_set_n(IF it.i = 0 /\ it.out = <<>> THEN set_n(c, it.a) ELSE c)

InitIterators ==
    /\ HarnessIdle
    /\ DriverIdle
    /\ EcmIdle
    /\ w_primes = <<2, 3, 5>> /\ w_lim = 6 /\ w_ubound = NoneInt
    /\ s_mem \in {MEM, Len(k_list)}
    /\ s_op = [name \in IterNames |-> SieveOp("none", 0, 0, 0, <<>>, TRUE)]
    /\ s_ops = 0

(* PRIME_GEN(ubound): an iterator is made; nothing runs before its first   *)
(* next()                                                                  *)
IteratorCall ==
    /\ \E name \in IterNames : \E ubound \in IterBounds :
          /\ s_op[name].op = "none"
          /\ s_op' = [s_op EXCEPT ![name] = SieveOp("PRIME_GEN", ubound, 0, 0, <<>>, FALSE)]
    /\ UNCHANGED <<w_primes, w_lim, w_ubound, s_mem, s_ops, hvars, dvars, evars>>

(* next() on one of the iterators that are alive *)
IteratorNext ==
    /\ \E name \in IterNames :
          /\ s_op[name].op = "PRIME_GEN" /\ ~s_op[name].done
          /\ LET advanced(r) ==
                     /\ SieveLeaves(r.c)
                     /\ s_op' = [s_op EXCEPT ![name] = r.it]
             IN  advanced(iter_next(s_op[name], TheCache, s_mem))
    /\ s_ops' = s_ops + 1
    /\ UNCHANGED <<s_mem, hvars, dvars, evars>>

NextIterators == IteratorCall \/ IteratorNext

SpecIterators == InitIterators /\ [][NextIterators]_vars

(* Worker.gen on the cache c would sieve [c.lim, new_lim) *)
ExtensionLimit(c) ==
    IF c.ubound # NoneInt
    THEN Min(c.primes[Len(c.primes)] * c.primes[Len(c.primes)] - 1, c.ubound + 1)
    ELSE c.primes[Len(c.primes)] * c.primes[Len(c.primes)] - 1

(* during wheel_sieve(prev, ubound) called by Worker.gen, a PRIME_GEN of   *)
(* _wheel_sieve reaches the end of the cached list (line 51: self.gen()    *)
(* is called again); the primes of each partition are appended before the  *)
(* next one is sieved                                                      *)
RECURSIVE NestedCallsGen(_, _, _, _)
NestedCallsGen(c, prev, ubound, mem) ==
    IF prev >= ubound THEN FALSE
    ELSE LET curr == Min(prev + step_size(mem), ubound)
             read(ps) ==
                 \/ Len(ps) = Len(c.primes)
                 \/ NestedCallsGen([c EXCEPT !.primes = c.primes
                                        \o sieve_yield(prev, c_array(prev, curr, ps))],
                                   curr, ubound, mem)
         IN  read(cached_below(c.primes, 0, isqrt(curr) + 1))

(***************************************************************************)
(* C29: with several PRIME_GEN iterators of different bounds alive at once *)
(* and advanced in any interleaving, each yields exactly the primes below  *)
(* its own bound, ascending, none skipped or repeated; and the iteration   *)
(* nested in an extension of the cache never extends the cache itself.     *)
(***************************************************************************)
C29_Interleaved ==
    /\ \A name \in IterNames :
          /\ s_op[name].op = "PRIME_GEN" =>
                IsPrefix(s_op[name].out, PrimesFrom(2, s_op[name].a))
          /\ (s_op[name].op = "PRIME_GEN" /\ s_op[name].done) =>
                s_op[name].out = PrimesFrom(2, s_op[name].a)
    /\ ExtensionLimit(TheCache) > w_lim =>
          ~NestedCallsGen(TheCache, w_lim, ExtensionLimit(TheCache), s_mem)

(* the first iterator is suspended in the middle of its primes; the second *)
(* one, of a larger bound, started after it and ran to its end, extending  *)
(* the cache past the bound of the first                                   *)
C29_Witness ==
    /\ s_op["first"].op = "PRIME_GEN" /\ ~s_op["first"].done
    /\ s_op["first"].a = 26
    /\ Len(s_op["first"].out) = 4
    /\ s_op["second"].op = "PRIME_GEN" /\ s_op["second"].done
    /\ s_op["second"].a = MaxSieve
    /\ Len(s_op["second"].out) >= 15
    /\ w_lim > 27

(***************************************************************************)
(* factorize with its calls of ecm carried out: the assert statements on   *)
(* the way.  The loop of src/wheel_sieve/factorize.py pops an entry; when  *)
(* it is neither a probable prime nor a perfect power, factor_ecm runs the *)
(* polyeval engine on it, schedule after schedule, and the loop goes on    *)
(* with what the engine returns.  The asserts are line 141 ("n >= 12"),    *)
(* the two of to_weierstrass, and "assert False" after the scan of the     *)
(* remainder tree.  An AssertionError is caught nowhere: the call ends.    *)
(*                                                                         *)
(* ecm_kwargs_list has four entries of growing bounds and 10 to 200        *)
(* rounds.  The list of the model has two entries of MaxRounds rounds: one *)
(* with bounds so small that Step 1 leaves a finite point on the primes of *)
(* BigPrimes and to_weierstrass converts it, and the first one of the      *)
(* code, (2000, 50000).  The cofactors that come to ecm are products of    *)
(* two primes of BigPrimes, below 2^30, where the sums of two residues of  *)
(* the engine stay below MaxInt.                                           *)
(***************************************************************************)
ecm_kwargs_list ==
    << [rounds |-> MaxRounds, b1 |-> 14, b2 |-> 30],
       [rounds |-> MaxRounds, b1 |-> 2000, b2 |-> 50000] >>

(* ecm(n, **ecm_kwargs) for entry k of the list; power_i is kept for the   *)
(* lines after the call                                                    *)
ecm_kwargs_call(n, power_i, k) ==
    [eng |-> "polyeval", n |-> n, rounds |-> ecm_kwargs_list[k].rounds,
     b1 |-> ecm_kwargs_list[k].b1, b2 |-> ecm_kwargs_list[k].b2,
     power_i |-> power_i, k |-> k]

AssertInputs ==
    {1, 2, 12, 997, 1033, 1033 * 1033, 1033 * 1039, 2 * 1033 * 1039, 12 * 1039 * 1049,
     2 * 1039 * 1049, 12 * 1033 * 1049, 997 * 1033 * 1049, 997 * 1039 * 1049, 1000000007}

InitAsserts ==
    /\ HarnessIdle
    /\ EcmIdle
    /\ SieveIdle
    /\ d_pc = "entry"
    /\ d_n \in AssertInputs
    /\ prime_factors = <<>>
    /\ working_dict = <<>>
    /\ remaining_factors = <<>>
    /\ d_calls = {}
    /\ d_iter = 0

(* lines 97-144 and lines 61-64 of factor_ecm: the popped entry fails      *)
(* miller_rabin and factor_power, ecm is called with the first schedule    *)
LoopEcmCall ==
    /\ d_pc = "loop"
    /\ working_dict # <<>>
    /\ LET p == DictPopItem(working_dict) IN
         /\ ~is_probable_prime[p.item[1]]
         /\ power_of[p.item[1]].factor = NoneInt
         /\ working_dict' = p.rest
         /\ e_call' = ecm_kwargs_call(p.item[1], p.item[2], 1)
    /\ d_pc' = "ecm"
    /\ e_pc' = "entry"
    /\ d_calls' = d_calls \cup {"miller_rabin", "factor_power", "ecm"}
    /\ UNCHANGED <<d_n, prime_factors, remaining_factors, d_iter, e_round, e_count,
                   e_draw, e_pt, e_curve, e_exc, e_ret, hvars, svars>>

(* factor_ecm, lines 61-66: ecm returned None and a schedule is left *)
FactorEcmNext ==
    /\ d_pc = "ecm"
    /\ e_pc = "done"
    /\ e_ret.kind = "return" /\ e_ret.val = NoneInt
    /\ e_call.k < Len(ecm_kwargs_list)
    /\ e_call' = ecm_kwargs_call(e_call.n, e_call.power_i, e_call.k + 1)
    /\ e_pc' = "entry"
    /\ e_round' = 0 /\ e_count' = 0 /\ e_draw' = <<>>
    /\ e_pt' = <<>> /\ e_curve' = <<>> /\ e_exc' = NoOutcome /\ e_ret' = NoOutcome
    /\ UNCHANGED <<dvars, hvars, svars>>

EcmForgotten ==
    /\ e_pc' = "idle" /\ e_call' = <<>> /\ e_round' = 0 /\ e_count' = 0 /\ e_draw' = <<>>
    /\ e_pt' = <<>> /\ e_curve' = <<>> /\ e_exc' = NoOutcome /\ e_ret' = NoOutcome

(* lines 144-147: factor_ecm returned a factor *)
LoopEcmFound ==
    /\ d_pc = "ecm"
    /\ e_pc = "done"
    /\ e_ret.kind = "return" /\ e_ret.val # NoneInt
    /\ working_dict' = DictAdd(DictAdd(working_dict, e_call.n \div e_ret.val, e_call.power_i),
                               e_ret.val, e_call.power_i)
    /\ d_pc' = "loop"
    /\ d_iter' = d_iter + 1
    /\ EcmForgotten
    /\ UNCHANGED <<d_n, prime_factors, remaining_factors, d_calls, hvars, svars>>

(* lines 144-149: every schedule returned None *)
LoopEcmNone ==
    /\ d_pc = "ecm"
    /\ e_pc = "done"
    /\ e_ret.kind = "return" /\ e_ret.val = NoneInt
    /\ e_call.k = Len(ecm_kwargs_list)
    /\ remaining_factors' = DictAdd(remaining_factors, e_call.n, e_call.power_i)
    /\ d_pc' = "loop"
    /\ d_iter' = d_iter + 1
    /\ EcmForgotten
    /\ UNCHANGED <<d_n, prime_factors, working_dict, d_calls, hvars, svars>>

(* what may reach line 200 on n: an InverseNotFound(x, n) raised between   *)
(* to_weierstrass and the remainder tree, x = 0 or a divisor of n, or the  *)
(* leaves of the tree, each a residue that remainder_tree has passed       *)
(* through lines 111-113                                                   *)
ScanInputs(n) ==
    LET ds == factor_ecm(n) \ {NoneInt} IN
    {[x |-> x, leaves |-> <<>>] : x \in {0} \cup ds}
    \cup {[x |-> NoneInt, leaves |-> <<rem_leaf(a), rem_leaf(b)>>] :
             a \in {0, 1, n - 1} \cup ds, b \in {1, n - 1} \cup ds}

(* the try block of a round of the polyeval engine, lines 165-215 *)
FactorizeStages ==
    /\ e_pc = "stages"
    /\ e_call.eng = "polyeval"
    /\ LET round(s1) ==
               \E in \in ScanInputs(e_call.n) :
                  RoundEnds(StageBind(s1, LAMBDA q :
                            IF in.x # NoneInt
                            THEN StageRaise(InverseNotFound(in.x, e_call.n))
                            ELSE polyeval_scan(in.leaves, e_call.n)))
       IN  round(polyeval_stage1(e_pt, e_curve, e_call.b1))

(* EcmSampleExhausted is not among the steps: on these n no draw of Draws  *)
(* makes get_curve_suyama fail                                             *)
NextAsserts ==
    \/ FactorizeSmall
    \/ FactorizeEnter
    \/ LoopPrime
    \/ LoopPower
    \/ LoopExit
    \/ LoopEcmCall
    \/ EcmEnter
    \/ EcmFor
    \/ EcmReturnNone
    \/ MntSample
    \/ FactorizeStages
    \/ FactorEcmNext
    \/ LoopEcmFound
    \/ LoopEcmNone

SpecAsserts == InitAsserts /\ [][NextAsserts]_vars

Composite(n) == \E d \in 2..isqrt(n) : n % d = 0

(* a round has come to line 200 with these leaves *)
ScanOf(leaves) == polyeval_scan(leaves, e_call.n)

(***************************************************************************)
(* C30: no assert fails on an execution of factorize(N), N >= 2.  ecm is   *)
(* only called with a composite n >= 12 that is neither a Miller-Rabin     *)
(* probable prime nor a detected perfect power; in Stage 2 a product of    *)
(* the terms whose gcd with n is n has a term whose gcd with n is strictly *)
(* between 1 and n; the point of to_weierstrass is on its curve.           *)
(***************************************************************************)
C30_NoAssertFails ==
    /\ e_ret.kind # "AssertionError" /\ e_exc.kind # "AssertionError"
    /\ e_pc \in {"entry", "for", "sample", "stages", "done"} =>
          /\ d_pc = "ecm"
          /\ e_call.n >= 12
          /\ Composite(e_call.n)
          /\ ~miller_rabin(e_call.n, DefaultWitness)
          /\ factor_power(e_call.n, bit_length(e_call.n) \div 10 + 1).factor = NoneInt
    /\ e_pc = "stages" =>
          \A in \in ScanInputs(e_call.n) :
             (in.x = NoneInt /\ gcd(rem_root(in.leaves, e_call.n), e_call.n) = e_call.n) =>
                 \E i \in DOMAIN in.leaves : is_factor(gcd(in.leaves[i], e_call.n), e_call.n)
    /\ (e_pc = "stages" /\ polyeval_stage1(e_pt, e_curve, e_call.b1).kind = "return") =>
          LET on_curve(q, c) ==
                  Mul(q[2], q[2], c[3]) = (Cube(q[1], c[3]) + Mul(c[1], q[1], c[3]) + c[2]) % c[3]
              converted(r) == on_curve(r[1], r[2])
          IN  converted(polyeval_stage1(e_pt, e_curve, e_call.b1).val)

(* a round of ecm on the cofactor 1033 * 1039 went through to_weierstrass  *)
(* and the scan of a tree whose product of leaves is 0 mod n, and returned *)
(* the factor of the first leaf                                            *)
C30_Witness ==
    /\ d_pc = "ecm"
    /\ e_pc = "done"
    /\ e_call.n = 1033 * 1039
    /\ e_ret.kind = "return" /\ e_ret.site = "per_term"
    /\ e_ret.val \in {1033, 1039}

====
